---------------------------- MODULE Spec2Model ----------------------------
(***************************************************************************)
(* A model of the tdscan calibration core (src/python): the geometric     *)
(* primitives of utils.py, the reconstruction of points_cloud.py and the  *)
(* cost functions of objectives.py.                                        *)
(*                                                                         *)
(* Numbers.  A numpy float64 is modelled as an exact rational <<n, d>>    *)
(* with d > 0 and gcd(n, d) = 1, or as one of the three IEEE specials      *)
(* <<1, 0>> (+inf), <<-1, 0>> (-inf), <<0, 0>> (NaN).  numpy's float       *)
(* division by zero yields inf or NaN and does not raise; comparisons     *)
(* with NaN are false.  Rounding is not modelled, and zero is unsigned.   *)
(* Angles are stored in units of pi/2 (a quarter turn), so that the       *)
(* rotations the model reaches have rational matrices.                    *)
(***************************************************************************)
EXTENDS Integers, Sequences, FiniteSets, TLC

VARIABLES scans, args, call

vars == <<scans, args, call>>

---------------------------------------------------------------------------
(* float64 arithmetic on rationals and the IEEE specials                   *)

\* a sequence with its entries computed once (a stored array)
Stored(f) == SubSeq(f, 1, Len(f))

AbsInt(n) == IF n < 0 THEN -n ELSE n

SgnInt(n) == IF n < 0 THEN -1 ELSE IF n > 0 THEN 1 ELSE 0

RECURSIVE Gcd(_, _)
Gcd(a, b) == IF b = 0 THEN a ELSE Gcd(b, a % b)

NaN == <<0, 0>>

PosInf == <<1, 0>>

NegInf == <<-1, 0>>

\* the float n/d, reduced; d = 0 gives the special of n's sign
Rat(n, d) ==
    IF d = 0 THEN <<SgnInt(n), 0>>
    ELSE LET g == Gcd(AbsInt(n), AbsInt(d))
             s == IF d < 0 THEN -1 ELSE 1
         IN  <<s * (n \div g), s * (d \div g)>>

Num(n) == <<n, 1>>

Zero == <<0, 1>>

One == <<1, 1>>

IsNaN(a) == a[1] = 0 /\ a[2] = 0

IsInf(a) == a[1] # 0 /\ a[2] = 0

\* np.isfinite
IsFinite(a) == a[2] # 0

Neg(a) == <<-a[1], a[2]>>

Add(a, b) ==
    IF IsNaN(a) \/ IsNaN(b) THEN NaN
    ELSE IF IsInf(a) /\ IsInf(b) THEN (IF a[1] = b[1] THEN a ELSE NaN)
    ELSE IF IsInf(a) THEN a
    ELSE IF IsInf(b) THEN b
    ELSE LET g == Gcd(a[2], b[2])
         IN  Rat(a[1] * (b[2] \div g) + b[1] * (a[2] \div g), (a[2] \div g) * b[2])

Sub(a, b) == Add(a, Neg(b))

Mul(a, b) ==
    IF IsNaN(a) \/ IsNaN(b) THEN NaN
    ELSE IF a[2] = 0 \/ b[2] = 0 THEN <<SgnInt(a[1]) * SgnInt(b[1]), 0>>
    ELSE LET g1 == Gcd(AbsInt(a[1]), b[2])
             g2 == Gcd(AbsInt(b[1]), a[2])
         IN  <<(a[1] \div g1) * (b[1] \div g2), (a[2] \div g2) * (b[2] \div g1)>>

\* 1/b: 1/0 = +inf, 1/inf = 0
Recip(b) ==
    IF IsNaN(b) THEN NaN
    ELSE IF IsInf(b) THEN Zero
    ELSE IF b[1] = 0 THEN PosInf
    ELSE IF b[1] < 0 THEN <<-b[2], -b[1]>>
    ELSE <<b[2], b[1]>>

\* a / b with numpy's semantics: x/0 = +-inf, 0/0 = NaN, no exception
Div(a, b) ==
    IF b[2] # 0 /\ b[1] = 0
    THEN (IF IsNaN(a) \/ a[1] = 0 THEN NaN ELSE <<SgnInt(a[1]), 0>>)
    ELSE Mul(a, Recip(b))

Sq(a) == Mul(a, a)

\* the sign of n1/d1 - n2/d2 (d1, d2 > 0), by the continued-fraction
\* expansion, so that no product is formed
RECURSIVE CmpFrac(_, _, _, _)
CmpFrac(n1, d1, n2, d2) ==
    LET q1 == n1 \div d1
        q2 == n2 \div d2
        r1 == n1 % d1
        r2 == n2 % d2
    IN  IF q1 # q2 THEN (IF q1 < q2 THEN -1 ELSE 1)
        ELSE IF r1 = 0 \/ r2 = 0
             THEN (IF r1 = r2 THEN 0 ELSE IF r1 = 0 THEN -1 ELSE 1)
        ELSE CmpFrac(d2, r2, d1, r1)

\* a < b; false when either side is NaN
Lt(a, b) ==
    IF IsNaN(a) \/ IsNaN(b) THEN FALSE
    ELSE IF a[2] = 0 \/ b[2] = 0
         THEN (IF a[2] = 0 /\ b[2] = 0 THEN a[1] < b[1]
               ELSE IF a[2] = 0 THEN a[1] < 0
               ELSE b[1] > 0)
    ELSE CmpFrac(a[1], a[2], b[1], b[2]) < 0

\* a == b on floats; false when either side is NaN
EqF(a, b) == ~IsNaN(a) /\ ~IsNaN(b) /\ a = b

Le(a, b) == Lt(a, b) \/ EqF(a, b)

Gt(a, b) == Lt(b, a)

Ge(a, b) == Le(b, a)

\* np.abs
Abs(a) == <<AbsInt(a[1]), a[2]>>


---------------------------------------------------------------------------
(* utils.py: float_equals and project_points_to_planes.  The code works on *)
(* arrays, one row per point; the model works row by row and maps over the *)
(* rows.  numpy evaluates all three branch formulas for every row and then *)
(* selects with np.where; a division by zero in a branch that is not       *)
(* selected leaves no trace, and one in the selected branch yields inf/NaN.*)

\* __eps = 1e-8 of utils.py
Eps8 == <<1, 100000000>>

\* the default eps of __planes_neq_zero
Eps2 == <<1, 100>>

float_equals(left, right, eps) == Lt(Abs(Sub(left, right)), eps)

\* __planes_neq_zero, for one coefficient
planes_neq_zero(coef) == ~float_equals(coef, Zero, Eps2)

planes_sum_square(pl) == Add(Add(Sq(pl[1]), Sq(pl[2])), Sq(pl[3]))

\* __find_det_planes, for one plane
find_det_planes(pl) ==
    LET s == planes_sum_square(pl)
    IN  IF planes_neq_zero(pl[1]) THEN Mul(pl[1], s)
        ELSE IF planes_neq_zero(pl[2]) THEN Mul(pl[2], s)
        ELSE Mul(pl[3], s)

Add3(u, v, w) == Add(Add(u, v), w)

Mul3(u, v, w) == Mul(Mul(u, v), w)

find_projections_a_neq_zero(pt, pl, det) ==
    LET x == pt[1]  y == pt[2]  z == pt[3]
        a == pl[1]  b == pl[2]  c == pl[3]  d == pl[4]
        cx_minus_az == Sub(Mul(c, x), Mul(a, z))
        bx_minus_ay == Sub(Mul(b, x), Mul(a, y))
    IN  << Div(Add3(Neg(Mul3(a, a, d)),
                    Mul3(a, c, cx_minus_az),
                    Mul3(a, b, bx_minus_ay)), det),
           Div(Add3(Mul3(b, c, cx_minus_az),
                    Mul(Neg(Add(Sq(a), Sq(c))), bx_minus_ay),
                    Neg(Mul3(a, b, d))), det),
           Div(Add3(Mul3(b, c, bx_minus_ay),
                    Mul(Neg(Add(Sq(a), Sq(b))), cx_minus_az),
                    Neg(Mul3(a, c, d))), det) >>

find_projections_b_neq_zero(pt, pl, det) ==
    LET x == pt[1]  y == pt[2]  z == pt[3]
        a == pl[1]  b == pl[2]  c == pl[3]  d == pl[4]
        bx_minus_ay == Sub(Mul(b, x), Mul(a, y))
        cy_minus_bz == Sub(Mul(c, y), Mul(b, z))
    IN  << Div(Add3(Mul(Add(Sq(b), Sq(c)), bx_minus_ay),
                    Mul3(a, c, cy_minus_bz),
                    Mul3(a, b, d)), det),
           Div(Add3(Mul3(b, c, cy_minus_bz),
                    Neg(Mul3(a, b, bx_minus_ay)),
                    Neg(Mul3(b, b, d))), det),
           Div(Add3(Neg(Mul3(b, c, d)),
                    Mul(Neg(Add(Sq(a), Sq(b))), cy_minus_bz),
                    Neg(Mul3(a, c, bx_minus_ay))), det) >>

find_projections_c_neq_zero(pt, pl, det) ==
    LET x == pt[1]  y == pt[2]  z == pt[3]
        a == pl[1]  b == pl[2]  c == pl[3]  d == pl[4]
        cx_minus_az == Sub(Mul(c, x), Mul(a, z))
        cy_minus_bz == Sub(Mul(c, y), Mul(b, z))
    IN  << Div(Add3(Mul(Add(Sq(b), Sq(c)), cx_minus_az),
                    Neg(Mul3(a, b, cy_minus_bz)),
                    Neg(Mul3(a, c, d))), det),
           Div(Add3(Mul(Add(Sq(a), Sq(c)), cy_minus_bz),
                    Neg(Mul3(a, b, cx_minus_az)),
                    Neg(Mul3(b, c, d))), det),
           Div(Add3(Neg(Mul3(c, c, d)),
                    Neg(Mul3(a, c, cx_minus_az)),
                    Neg(Mul3(b, c, cy_minus_bz))), det) >>

\* a*x + b*y + c*z + d
plane_eq(pt, pl) ==
    Add(Add3(Mul(pl[1], pt[1]), Mul(pl[2], pt[2]), Mul(pl[3], pt[3])), pl[4])

find_points_are_projections(pt, pl) == float_equals(plane_eq(pt, pl), Zero, Eps8)

\* "A", "B" or "C": the branch np.where selects for a plane
SelectedBranch(pl) ==
    IF planes_neq_zero(pl[1]) THEN "A"
    ELSE IF planes_neq_zero(pl[2]) THEN "B"
    ELSE "C"

\* find_projections without the on-plane test of its last np.where
find_projections_no_on_plane_test(pt, pl, det) ==
    IF planes_neq_zero(pl[1]) THEN find_projections_a_neq_zero(pt, pl, det)
    ELSE IF planes_neq_zero(pl[2]) THEN find_projections_b_neq_zero(pt, pl, det)
    ELSE find_projections_c_neq_zero(pt, pl, det)

\* __find_projections, for one point and its plane
find_projections(pt, pl, det) ==
    IF find_points_are_projections(pt, pl) THEN pt
    ELSE IF planes_neq_zero(pl[1]) THEN find_projections_a_neq_zero(pt, pl, det)
    ELSE IF planes_neq_zero(pl[2]) THEN find_projections_b_neq_zero(pt, pl, det)
    ELSE find_projections_c_neq_zero(pt, pl, det)

\* project_points_to_planes, for one point and its plane
project_point_to_plane(pt, pl) == find_projections(pt, pl, find_det_planes(pl))

\* project_points_to_planes(points, planes): row i of points onto row i of planes
project_points_to_planes(points, planes) ==
    [i \in 1..Len(points) |-> project_point_to_plane(points[i], planes[i])]


---------------------------------------------------------------------------
(* SpecProj: project_points_to_planes applied to drawn inputs.  Init draws *)
(* one point and one plane (arrays of one row); Project applies the        *)
(* function; ProjectAgain applies it to the returned array, same planes.   *)

\* point coordinates are drawn from -ProjMaxCoord..ProjMaxCoord
ProjMaxCoord == 1

\* a non-zero value below both tolerances of utils.py (5e-9)
Tiny == <<1, 200000000>>

\* plane coefficients: 0, 1/128 (non-zero, below the 1e-2 tolerance), 1, -1
ProjCoefs == {Zero, Rat(1, 128), One, Num(-1)}

ProjOffsets == {Zero, One, Num(-2)}

ProjCoords == {Num(k) : k \in (-ProjMaxCoord)..ProjMaxCoord}

ProjPoints == {<<x, y, z>> : x \in ProjCoords, y \in ProjCoords, z \in ProjCoords}

ProjPlanes ==
    {<<a, b, c, d>> : a \in ProjCoefs, b \in ProjCoefs, c \in ProjCoefs, d \in ProjOffsets}

\* inputs within 1e-8 of their plane without lying on it
ProjTinyInputs ==
    { <<<<Tiny, Zero, One>>, <<One, Zero, Zero, Zero>>>>,
      <<<<Zero, One, Zero>>, <<Zero, One, Zero, Sub(Tiny, One)>>>>,
      <<<<One, Zero, Neg(Tiny)>>, <<Zero, Zero, One, Zero>>>>,
      <<<<Zero, Zero, Zero>>, <<Zero, Zero, Zero, Tiny>>>> }

ProjInputs == (ProjPoints \X ProjPlanes) \cup ProjTinyInputs

NoScans == << >>

NoArgs == << >>

InitProj ==
    /\ scans = NoScans
    /\ args = NoArgs
    /\ \E inp \in ProjInputs :
         call = [fn |-> "input", points |-> <<inp[1]>>, planes |-> <<inp[2]>>]

Project ==
    /\ call.fn = "input"
    /\ call' = [fn |-> "project_points_to_planes",
                points |-> call.points, planes |-> call.planes,
                ret |-> project_points_to_planes(call.points, call.planes),
                again |-> FALSE]
    /\ UNCHANGED <<scans, args>>

\* the planes ProjectAgain is applied with: integer coefficients, or 1/128
\* as the only fractional coefficient beside one coefficient of magnitude 1
\* (the intermediate products of other planes exceed TLC's 32-bit integers)
ProjAgainPlane(pl) ==
    LET frac == {i \in 1..3 : pl[i][2] > 1}
        unit == {i \in 1..3 : pl[i][2] = 1 /\ pl[i][1] # 0}
    IN  frac = {} \/ (Cardinality(frac) = 1 /\ Cardinality(unit) <= 1)

ProjectAgain ==
    /\ call.fn = "project_points_to_planes"
    /\ ~call.again
    /\ \A i \in 1..Len(call.planes) : ProjAgainPlane(call.planes[i])
    /\ call' = [fn |-> "project_points_to_planes",
                points |-> call.ret, planes |-> call.planes,
                ret |-> project_points_to_planes(call.ret, call.planes),
                again |-> TRUE]
    /\ UNCHANGED <<scans, args>>

NextProj == Project \/ ProjectAgain

SpecProj == InitProj /\ [][NextProj]_vars

(* ---- claims about project_points_to_planes (under SpecProj) ---- *)

NormalNonZero(pl) == pl[1] # Zero \/ pl[2] # Zero \/ pl[3] # Zero

\* p - ((A,B,C).p + D)/(A^2+B^2+C^2) * (A,B,C)
OrthogonalProjection(pt, pl) ==
    LET k == Div(Add(Add3(Mul(pl[1], pt[1]), Mul(pl[2], pt[2]), Mul(pl[3], pt[3])), pl[4]),
                 Add3(Mul(pl[1], pl[1]), Mul(pl[2], pl[2]), Mul(pl[3], pl[3])))
    IN  <<Sub(pt[1], Mul(k, pl[1])), Sub(pt[2], Mul(k, pl[2])), Sub(pt[3], Mul(k, pl[3]))>>

\* |A*x + B*y + C*z + D| < 1e-8
WithinPlaneTolerance(pt, pl) ==
    Lt(Abs(Add(Add3(Mul(pl[1], pt[1]), Mul(pl[2], pt[2]), Mul(pl[3], pt[3])), pl[4])),
       <<1, 100000000>>)

Projected == call.fn = "project_points_to_planes"

\* row i of the call is in the B-dominant branch: |A| < 1e-2 <= |B|
BDominant(pl) == Lt(Abs(pl[1]), <<1, 100>>) /\ ~Lt(Abs(pl[2]), <<1, 100>>)

\* C5: for every point and every plane with (A,B,C) # 0 that is not within
\* the 1e-8 tolerance of the point, project_points_to_planes returns the
\* orthogonal projection; stated here for the B-dominant branch, which the
\* claim singles out (A non-zero below the tolerance, D non-zero).
C5_BDominantIsOrthogonal ==
    (Projected /\ ~call.again) =>
        \A i \in 1..Len(call.points) :
            (BDominant(call.planes[i]) /\ ~WithinPlaneTolerance(call.points[i], call.planes[i]))
                => call.ret[i] = OrthogonalProjection(call.points[i], call.planes[i])

\* C6: projecting the result of a projection again, with the same plane,
\* returns that same result.
C6_Idempotent == (Projected /\ call.again) => call.ret = call.points

\* C7: a point within 1e-8 of its plane (on the plane equation) is returned
\* exactly unchanged, whichever branch its plane selects and whatever that
\* branch's divisor is.
C7_OnPlaneUnchanged ==
    Projected =>
        \A i \in 1..Len(call.points) :
            WithinPlaneTolerance(call.points[i], call.planes[i])
                => call.ret[i] = call.points[i]

\* a point off its plane by less than the tolerance, and one on a plane whose
\* selected divisor is zero although (A,B,C) # 0, both returned unchanged
C7_Witness ==
    /\ Projected
    /\ ~call.again
    /\ LET pt == call.points[1]
           pl == call.planes[1]
       IN  /\ WithinPlaneTolerance(pt, pl)
           /\ NormalNonZero(pl)
           /\ find_det_planes(pl) = Zero
           /\ call.ret[1] = pt

C7_WitnessTolerance ==
    /\ Projected
    /\ LET pt == call.points[1]
           pl == call.planes[1]
       IN  /\ WithinPlaneTolerance(pt, pl)
           /\ plane_eq(pt, pl) # Zero
           /\ NormalNonZero(pl)
           /\ call.ret[1] = pt

\* the coefficient of the branch np.where selects for a plane
SelectedCoefficient(pl) ==
    IF SelectedBranch(pl) = "A" THEN pl[1]
    ELSE IF SelectedBranch(pl) = "B" THEN pl[2]
    ELSE pl[3]

\* C24: for every plane whose (A, B, C) is not the zero vector, the branch
\* selected has a coefficient of magnitude at least 1e-2 and a divisor
\* (that coefficient times A^2 + B^2 + C^2) that is not zero, also when A
\* and B are below the tolerance and C is zero or below the tolerance.
C24_SelectedDivisorNonZero ==
    Projected =>
        \A i \in 1..Len(call.planes) :
            NormalNonZero(call.planes[i]) =>
                /\ Ge(Abs(SelectedCoefficient(call.planes[i])), <<1, 100>>)
                /\ find_det_planes(call.planes[i])
                       = Mul(SelectedCoefficient(call.planes[i]),
                             Add3(Sq(call.planes[i][1]), Sq(call.planes[i][2]),
                                  Sq(call.planes[i][3])))
                /\ find_det_planes(call.planes[i]) # Zero

\* a plane with A below the tolerance and B = C = 0: the C branch divides
\* by zero
C24_ZeroDivisorReached ==
    /\ Projected
    /\ \E i \in 1..Len(call.planes) :
           /\ NormalNonZero(call.planes[i])
           /\ SelectedBranch(call.planes[i]) = "C"
           /\ find_det_planes(call.planes[i]) = Zero
           /\ \E k \in 1..3 : ~IsFinite(call.ret[i][k])

\* the same for the planes with a coefficient of magnitude 1e-2 or more
C24_NonZeroWithLargeCoefficient ==
    Projected =>
        \A i \in 1..Len(call.planes) :
            (\E k \in 1..3 : Ge(Abs(call.planes[i][k]), <<1, 100>>)) =>
                /\ Ge(Abs(SelectedCoefficient(call.planes[i])), <<1, 100>>)
                /\ find_det_planes(call.planes[i]) # Zero

---------------------------------------------------------------------------
(* utils.py: pairwise_dist_square_sum and eval_dens.  Python's index i is  *)
(* the model's index i + 1 (sequences start at 1).                         *)

RECURSIVE SumSeq(_)
SumSeq(s) == IF Len(s) = 0 THEN Zero ELSE Add(Head(s), SumSeq(Tail(s)))

\* np.sum((p - q) ** 2) for two rows
dist_square(p, q) == SumSeq([k \in 1..Len(p) |-> Sq(Sub(p[k], q[k]))])

\* the double loop of pairwise_dist_square_sum, started at Python index `first`:
\*   for i in np.arange(first, points_count):
\*       for j in np.arange(i+1, points_count): sum += ...
RECURSIVE pairwise_loop(_, _, _)
pairwise_loop(points, i, j) ==
    LET points_count == Len(points)
    IN  IF i > points_count THEN Zero
        ELSE IF j > points_count THEN pairwise_loop(points, i + 1, i + 2)
        ELSE Add(dist_square(points[i], points[j]), pairwise_loop(points, i, j + 1))

\* the same loop with the outer index started at Python's 0
pairwise_dist_square_sum_from_zero(points) == pairwise_loop(points, 1, 2)

\* pairwise_dist_square_sum: the outer loop is np.arange(1, points_count)
pairwise_dist_square_sum(points) == pairwise_loop(points, 2, 3)

\* __get_points_in_range with the upper comparison made inclusive
get_points_in_range_closed(v, points_range, index) ==
    Le(points_range[index], v) /\ Le(v, points_range[index + 1])

\* __get_points_in_range, for one coordinate
get_points_in_range(v, points_range, index) ==
    Le(points_range[index], v) /\ Lt(v, points_range[index + 1])

\* dens[i, j] before the division: the number of points in bin (i, j)
dens_count(points, xrange, yrange, i, j) ==
    Cardinality({k \in 1..Len(points) :
        /\ get_points_in_range(points[k][1], xrange, j)
        /\ get_points_in_range(points[k][2], yrange, i)})

\* local_vol without its second factor, the bin's height
dens_local_vol_without_height(points, xrange, yrange, i, j) ==
    Mul(Num(dens_count(points, xrange, yrange, i, j)),
        Sub(xrange[j + 1], xrange[j]))

\* local_vol of bin (i, j)
dens_local_vol(points, xrange, yrange, i, j) ==
    Mul(Mul(Num(dens_count(points, xrange, yrange, i, j)),
            Sub(xrange[j + 1], xrange[j])),
        Sub(yrange[i + 1], yrange[i]))

\* vol after the two loops (row-major accumulation)
dens_vol(points, xrange, yrange) ==
    SumSeq([i \in 1..(Len(yrange) - 1) |->
        SumSeq([j \in 1..(Len(xrange) - 1) |->
            dens_local_vol(points, xrange, yrange, i, j)])])

\* the division dens /= vol is an array division: by zero it gives NaN (0/0)
\* or inf, and raises nothing
dens_divide(count, vol) == Div(Num(count), vol)

\* the same division guarded against vol == 0
dens_divide_guarded(count, vol) == IF vol = Zero THEN Zero ELSE Div(Num(count), vol)

\* eval_dens(points, xrange, yrange): a (ycount-1) x (xcount-1) grid
eval_dens(points, xrange, yrange) ==
    LET vol == dens_vol(points, xrange, yrange)
    IN  [i \in 1..(Len(yrange) - 1) |->
            [j \in 1..(Len(xrange) - 1) |->
                dens_divide(dens_count(points, xrange, yrange, i, j), vol)]]

---------------------------------------------------------------------------
(* SpecUtil: pairwise_dist_square_sum and eval_dens applied to drawn       *)
(* inputs.                                                                 *)

\* the longest point array drawn
UtilMaxPoints == 3

RECURSIVE SeqsUpTo(_, _)
SeqsUpTo(S, n) ==
    IF n = 0 THEN {<< >>}
    ELSE LET shorter == SeqsUpTo(S, n - 1)
         IN  shorter \cup {Append(s, e) : s \in {t \in shorter : Len(t) = n - 1}, e \in S}

PairPoints ==
    { <<Zero, Zero, Zero>>, <<One, Zero, Zero>>, <<Zero, Num(2), Zero>>, <<One, One, Rat(1, 2)>> }

\* 2D points inside, on the edges of, and outside the windows below
DensPoints ==
    { <<Zero, Zero>>, <<Rat(1, 2), One>>, <<Num(2), One>>, <<One, Num(3)>>, <<Num(-1), Rat(1, 2)>> }

\* strictly increasing edge sequences, uniform and not
DensRanges ==
    { <<Zero, One, Num(2)>>, <<Zero, Rat(1, 2), Num(3)>>, <<Num(-1), Zero, Rat(3, 2), Num(2)>> }

InitUtil ==
    /\ scans = NoScans
    /\ args = NoArgs
    /\ \/ \E pts \in SeqsUpTo(PairPoints, UtilMaxPoints) :
            call = [fn |-> "input", for |-> "pairwise_dist_square_sum", points |-> pts]
       \/ \E pts \in SeqsUpTo(DensPoints, UtilMaxPoints - 1), xr \in DensRanges, yr \in DensRanges :
            call = [fn |-> "input", for |-> "eval_dens", points |-> pts,
                    xrange |-> xr, yrange |-> yr]

PairwiseDistSquareSum ==
    /\ call.fn = "input"
    /\ call.for = "pairwise_dist_square_sum"
    /\ call' = [fn |-> "pairwise_dist_square_sum", points |-> call.points,
                ret |-> pairwise_dist_square_sum(call.points)]
    /\ UNCHANGED <<scans, args>>

EvalDens ==
    /\ call.fn = "input"
    /\ call.for = "eval_dens"
    /\ call' = [fn |-> "eval_dens", points |-> call.points,
                xrange |-> call.xrange, yrange |-> call.yrange,
                ret |-> eval_dens(call.points, call.xrange, call.yrange)]
    /\ UNCHANGED <<scans, args>>

NextUtil == PairwiseDistSquareSum \/ EvalDens

SpecUtil == InitUtil /\ [][NextUtil]_vars

(* ---- claims about pairwise_dist_square_sum and eval_dens (SpecUtil) ---- *)

\* the sum of squared Euclidean distances over all unordered pairs i < j
AllPairsSum(points) ==
    SumSeq([n \in 1..(Len(points) * Len(points)) |->
        LET i == ((n - 1) \div Len(points)) + 1
            j == ((n - 1) % Len(points)) + 1
        IN  IF i < j
            THEN Add3(Mul(Sub(points[i][1], points[j][1]), Sub(points[i][1], points[j][1])),
                      Mul(Sub(points[i][2], points[j][2]), Sub(points[i][2], points[j][2])),
                      Mul(Sub(points[i][3], points[j][3]), Sub(points[i][3], points[j][3])))
            ELSE Zero])

\* C8: pairwise_dist_square_sum returns the sum of squared distances over all
\* unordered pairs, the point at index 0 included; for two points p1, p2 it
\* is ||p1 - p2||^2.
C8_SumOverAllPairs ==
    call.fn = "pairwise_dist_square_sum" => call.ret = AllPairsSum(call.points)

GridBins(grid) == {<<i, j>> : i \in DOMAIN grid, j \in 1..Len(grid[1])}

\* C9: for an empty point set eval_dens returns a grid that is zero in every
\* bin (no NaN entry).
C9_EmptyGivesZeroGrid ==
    (call.fn = "eval_dens" /\ Len(call.points) = 0) =>
        \A b \in GridBins(call.ret) : call.ret[b[1]][b[2]] = Zero

\* every point lies in [first edge, last edge) on both axes
InsideWindow(points, xrange, yrange) ==
    \A k \in 1..Len(points) :
        /\ Le(xrange[1], points[k][1]) /\ Lt(points[k][1], xrange[Len(xrange)])
        /\ Le(yrange[1], points[k][2]) /\ Lt(points[k][2], yrange[Len(yrange)])

\* the sum over bins of density times bin area
TotalMass(grid, xrange, yrange) ==
    SumSeq([i \in 1..Len(grid) |->
        SumSeq([j \in 1..Len(grid[i]) |->
            Mul(grid[i][j], Mul(Sub(xrange[j + 1], xrange[j]), Sub(yrange[i + 1], yrange[i])))])])

\* C10: for a non-empty point set inside the binning window [min, max) of
\* both axes, the grid eval_dens returns has total mass 1.
C10_TotalMassOne ==
    (/\ call.fn = "eval_dens"
     /\ Len(call.points) > 0
     /\ InsideWindow(call.points, call.xrange, call.yrange))
        => TotalMass(call.ret, call.xrange, call.yrange) = One

\* two points in different bins of a non-uniform grid, mass 1
C10_Witness ==
    /\ call.fn = "eval_dens"
    /\ Len(call.points) = 2
    /\ call.points[1] # call.points[2]
    /\ InsideWindow(call.points, call.xrange, call.yrange)
    /\ call.xrange = <<Zero, Rat(1, 2), Num(3)>>
    /\ \E b \in GridBins(call.ret) : Lt(Zero, call.ret[b[1]][b[2]]) /\ Lt(call.ret[b[1]][b[2]], One)
    /\ TotalMass(call.ret, call.xrange, call.yrange) = One

\* the points with edge[i] <= v < edge[i+1] on both axes for bin (i, j)
ClosedOpenBin(points, xrange, yrange, i, j) ==
    {k \in 1..Len(points) :
        /\ Le(xrange[j], points[k][1]) /\ Lt(points[k][1], xrange[j + 1])
        /\ Le(yrange[i], points[k][2]) /\ Lt(points[k][2], yrange[i + 1])}

\* the bins of the grid in which eval_dens counts point k
BinsCounting(points, xrange, yrange, k) ==
    {b \in (1..(Len(yrange) - 1)) \X (1..(Len(xrange) - 1)) :
        /\ get_points_in_range(points[k][1], xrange, b[2])
        /\ get_points_in_range(points[k][2], yrange, b[1])}

\* the point is on the highest edge of an axis or outside its range
OnHighestEdgeOrOutside(pt, xrange, yrange) ==
    \/ Lt(pt[1], xrange[1]) \/ Le(xrange[Len(xrange)], pt[1])
    \/ Lt(pt[2], yrange[1]) \/ Le(yrange[Len(yrange)], pt[2])

\* C11: eval_dens counts a point in bin (i, j) iff edge[i] <= v < edge[i+1]
\* holds on both axes (the grid returned is the closed-open counts over
\* vol); a point on the highest edge or outside the range is counted in no
\* bin, every other point (one on the lowest edge included) in exactly one,
\* so no point is counted in more than one bin.
C11_ClosedOpenBins ==
    call.fn = "eval_dens" =>
        /\ \A b \in GridBins(call.ret) :
               /\ dens_count(call.points, call.xrange, call.yrange, b[1], b[2])
                      = Cardinality(ClosedOpenBin(call.points, call.xrange,
                                                  call.yrange, b[1], b[2]))
               /\ call.ret[b[1]][b[2]]
                      = Div(Num(Cardinality(ClosedOpenBin(call.points, call.xrange,
                                                          call.yrange, b[1], b[2]))),
                            dens_vol(call.points, call.xrange, call.yrange))
        /\ \A k \in 1..Len(call.points) :
               Cardinality(BinsCounting(call.points, call.xrange, call.yrange, k))
                   = IF OnHighestEdgeOrOutside(call.points[k], call.xrange, call.yrange)
                     THEN 0 ELSE 1

\* a point on the lowest edges is counted in the first bin, a point on the
\* highest x edge in none
C11_Witness ==
    /\ call.fn = "eval_dens"
    /\ call.points = <<<<Zero, Zero>>, <<Num(2), One>>>>
    /\ call.xrange = <<Zero, One, Num(2)>>
    /\ call.yrange = <<Zero, One, Num(2)>>
    /\ call.ret[1][1] = One
    /\ call.ret[2][2] = Zero

---------------------------------------------------------------------------
(* points_cloud.py: build_points_cloud.                                    *)
(*                                                                         *)
(* np.sqrt is exact on squares of rationals and rounded down to a multiple *)
(* of 1/SqrtScale elsewhere.  np.tan, np.arctan and the rotations are      *)
(* tabulated on the angles the drawn scans and parameter vectors reach     *)
(* (multiples of pi/2, with tan(pi/4) = 1), where they are exact.          *)

\* the resolution np.sqrt is rounded to on non-squares
SqrtScale == 16

RECURSIVE ISqrtIter(_, _)
ISqrtIter(n, x) ==
    LET y == (x + n \div x) \div 2
    IN  IF y >= x THEN x ELSE ISqrtIter(n, y)

\* the integer square root, rounded down
ISqrt(n) == IF n < 2 THEN n ELSE ISqrtIter(n, n)

\* np.sqrt
Sqrt(a) ==
    IF IsNaN(a) \/ a = NegInf THEN NaN
    ELSE IF a = PosInf THEN PosInf
    ELSE IF a[1] < 0 THEN NaN
    ELSE LET rn == ISqrt(a[1])
             rd == ISqrt(a[2])
         IN  IF rn * rn = a[1] /\ rd * rd = a[2] THEN <<rn, rd>>
             ELSE IF a[1] < 4000000
                  THEN Rat(ISqrt((a[1] * SqrtScale * SqrtScale) \div a[2]), SqrtScale)
             ELSE Rat(ISqrt(a[1] \div a[2]), 1)

\* np.tan of an angle in units of pi/2; the scans of the model hold pi/2 as
\* their angle of view, whose half has tangent 1
Tan(a) ==
    CASE a = Zero -> Zero
      [] a = <<1, 2>> -> One
      [] a = <<1, 4>> -> <<53, 128>>
      [] OTHER -> NaN

\* np.arctan, in units of pi/2, on the values the model reaches
ArcTan(t) ==
    CASE IsNaN(t) -> NaN
      [] t = PosInf -> One
      [] t = NegInf -> <<-1, 1>>
      [] t = Zero -> Zero

\* cos and sin of a whole number of quarter turns
CosQ(a) ==
    CASE IsNaN(a) -> NaN
      [] a[2] = 1 -> Num(<<1, 0, -1, 0>>[(a[1] % 4) + 1])

SinQ(a) ==
    CASE IsNaN(a) -> NaN
      [] a[2] = 1 -> Num(<<0, 1, 0, -1>>[(a[1] % 4) + 1])

\* np.linalg.norm of a vector
Norm(v) == Sqrt(SumSeq(Stored([k \in 1..Len(v) |-> Sq(v[k])])))

VecAdd(u, v) == Stored([k \in 1..Len(u) |-> Add(u[k], v[k])])

VecSub(u, v) == Stored([k \in 1..Len(u) |-> Sub(u[k], v[k])])

Dot(u, v) == SumSeq(Stored([k \in 1..Len(u) |-> Mul(u[k], v[k])]))

\* a matrix is the sequence of its rows
MatVec(m, v) == Stored([r \in 1..Len(m) |-> Dot(m[r], v)])

MatMul(m, n) ==
    Stored([r \in 1..Len(m) |-> Stored([c \in 1..Len(n[1]) |->
        SumSeq(Stored([k \in 1..Len(n) |-> Mul(m[r][k], n[k][c])]))])])

IdentityRot == <<<<One, Zero, Zero>>, <<Zero, One, Zero>>, <<Zero, Zero, One>>>>

NaNRot == <<<<NaN, NaN, NaN>>, <<NaN, NaN, NaN>>, <<NaN, NaN, NaN>>>>

\* the cross-product matrix of k
cross_matrix(k) ==
    <<<<Zero, Neg(k[3]), k[2]>>, <<k[3], Zero, Neg(k[1])>>, <<Neg(k[2]), k[1], Zero>>>>

\* the rotation by the angle with cosine c and sine s about the unit
\* vector k, as a matrix (Rodrigues)
axis_angle_rot(k, c, s) ==
    Stored([r \in 1..3 |-> Stored([q \in 1..3 |->
        Add3(IF r = q THEN c ELSE Zero,
             Mul3(Sub(One, c), k[r], k[q]),
             Mul(s, cross_matrix(k)[r][q]))])])

\* the rotation of the vector rv whose norm is theta
rotvec_rot(rv, theta) ==
    IF IsNaN(theta) THEN NaNRot
    ELSE IF theta = Zero THEN IdentityRot
    ELSE axis_angle_rot(Stored([n \in 1..3 |-> Div(rv[n], theta)]),
                        CosQ(theta), SinQ(theta))

\* Rotation.from_rotvec, as a matrix: the rotation by |rotvec| about
\* rotvec/|rotvec|, the identity for the zero vector, and a rotation of
\* NaNs for a NaN vector (where the library does not raise)
from_rotvec(rv) == rotvec_rot(rv, Norm(rv))

\* __rotation_from_euler_z
rotation_from_euler_z(angle) ==
    LET c == CosQ(angle)
        s == SinQ(angle)
    IN  <<<<c, Neg(s), Zero>>, <<s, c, Zero>>, <<Zero, Zero, One>>>>

\* __get_tan: the tangent of half the angle of view
get_tan(scan) == Tan(Div(scan.camera_angle_of_view, Num(2)))

\* the scan dict after __get_tan, had `angle /= 2.0` written the entry
get_tan_scan_halved(scan) ==
    [scan EXCEPT !.camera_angle_of_view = Div(@, Num(2))]

\* the scan dict after __get_tan: `angle /= 2.0` rebinds the local name
\* (the entry is a Python float, which is immutable), the dict is not written
get_tan_scan(scan) == scan

get_eye(scan) ==
    <<scan.camera_initial_position.x, scan.camera_initial_position.y,
      scan.camera_initial_position.z>>

get_elev(scan) == <<Zero, Zero, scan.camera_view_elevation>>

\* __get_look_and_elev
get_look(scan) == VecSub(get_eye(scan), get_elev(scan))

\* np.abs(v) > __eps with __eps = 1e-10 of points_cloud.py: 1e-10 is below
\* every non-zero magnitude the model's numbers hold (at least 2^-31)
ExceedsEps(v) == ~IsNaN(v) /\ v[1] # 0

\* __get_look_rot_axis
get_look_rot_axis(look) ==
    IF ExceedsEps(Abs(look[2]))
    THEN LET slope == Div(Neg(look[1]), look[2])
             look_rot_axis_x == Div(One, Sqrt(Add(One, Mul(slope, slope))))
         IN  <<look_rot_axis_x, Mul(slope, look_rot_axis_x), Zero>>
    ELSE <<Zero, One, Zero>>

\* __get_look_angle: arctan(look.z / ||look.xy||) + pi/2
get_look_angle(look) ==
    Add(ArcTan(Div(look[3], Norm(<<look[1], look[2]>>))), One)

\* look_angle * look_rot_axis
get_look_rot_vec(look) ==
    LET look_rot_axis == get_look_rot_axis(look)
        look_angle == get_look_angle(look)
    IN  Stored([k \in 1..3 |-> Mul(look_angle, look_rot_axis[k])])

\* __get_look_rot
get_look_rot(look) == from_rotvec(get_look_rot_vec(look))

\* __get_landscape_rot
get_landscape_rot(scan) == rotation_from_euler_z(scan.camera_landscape_angle)

\* __get_rot: look_rot * landscape_rot (the landscape rotation acts first)
get_rot(scan, look) == MatMul(get_look_rot(look), get_landscape_rot(scan))

\* nanoseconds per second, the divisor of __get_time_rot
NsPerSecond == 1000000000

\* __get_time_rot turning about the x axis instead of the z axis
get_time_rot_about_x(scan, frame, time_base) ==
    LET timestamp == Div(Sub(frame.time, time_base), Num(NsPerSecond))
        camera_angle == Mul(timestamp, scan.camera_angular_velocity)
    IN  <<<<One, Zero, Zero>>,
          <<Zero, CosQ(camera_angle), Neg(SinQ(camera_angle))>>,
          <<Zero, SinQ(camera_angle), CosQ(camera_angle)>>>>

\* __get_time_rot
get_time_rot(scan, frame, time_base) ==
    LET timestamp == Div(Sub(frame.time, time_base), Num(NsPerSecond))
        camera_angle == Mul(timestamp, scan.camera_angular_velocity)
    IN  rotation_from_euler_z(camera_angle)

\* __get_depth_sensor_plane: depth / cos(arctan(sqrt(proj_square) / fl)),
\* with cos(arctan(u)) = 1 / sqrt(1 + u^2)
get_depth_sensor_plane(scan, tan, depth, proj_square) ==
    LET fl == Div(Div(Num(scan.depth_width), tan), Num(2))
        u == Div(Sqrt(proj_square), fl)
        cos_angle == Div(One, Sqrt(Add(One, Mul(u, u))))
    IN  Div(depth, cos_angle)

\* __get_xyz, for one pixel
get_xyz(scan, tan, w, h, depth, proj_square) ==
    LET width == Num(scan.depth_width)
        denom == Sqrt(Add(Mul(width, width),
                          Mul(Mul(Num(4), proj_square), Mul(tan, tan))))
        xy_factor == Div(Mul(Mul(Num(2), depth), tan), denom)
    IN  <<Mul(w, xy_factor), Mul(h, xy_factor), Div(Mul(depth, width), denom)>>

\* the unfiltered point of pixel (i, j) (Python indices) of a frame: its
\* depth, __get_w_and_h, __get_proj_square, __get_xyz and
\* __get_unfiltered_points (rot.apply(xyz) + look + elev, then time_rot)
get_unfiltered_point(scan, frame, tan, look, elev, rot, time_rot, i, j) ==
    LET depth_index == i * scan.depth_width + j
        raw_depth == frame.depths[depth_index + 1]
        w == Sub(Num(j), Div(Num(scan.depth_width), Num(2)))
        h == Sub(Num(i), Div(Num(scan.depth_height), Num(2)))
        proj_square == Add(Mul(w, w), Mul(h, h))
        depth == IF scan.sensor_plane_depth
                 THEN get_depth_sensor_plane(scan, tan, raw_depth, proj_square)
                 ELSE raw_depth
        xyz == get_xyz(scan, tan, w, h, depth, proj_square)
    IN  MatVec(time_rot, VecAdd(VecAdd(MatVec(rot, xyz), look), elev))

\* __get_confidence_mask with the comparison turned round
get_confidence_mask_at_most(params, frame, depth_index) ==
    Le(frame.depth_confidences[depth_index + 1], params.min_depth_confidence)

\* __get_confidence_mask, for one pixel
get_confidence_mask(params, frame, depth_index) ==
    Ge(frame.depth_confidences[depth_index + 1], params.min_depth_confidence)

\* __get_mask with max_z made an exclusive bound
get_mask_below_max_z(params, frame, depth_index, point) ==
    /\ get_confidence_mask(params, frame, depth_index)
    /\ Le(Norm(<<point[1], point[2]>>), params.max_z_distance)
    /\ Ge(point[3], params.min_z)
    /\ Lt(point[3], params.max_z)

\* __get_mask, for one pixel and its point
get_mask(params, frame, depth_index, point) ==
    /\ get_confidence_mask(params, frame, depth_index)
    /\ Le(Norm(<<point[1], point[2]>>), params.max_z_distance)
    /\ Ge(point[3], params.min_z)
    /\ Le(point[3], params.max_z)

RECURSIVE SelectSeq2(_, _, _)
\* the entries s[k] with keep[k], in order (boolean-mask indexing)
SelectSeq2(s, keep, k) ==
    IF k > Len(s) THEN << >>
    ELSE (IF keep[k] THEN <<s[k]>> ELSE << >>) \o SelectSeq2(s, keep, k + 1)

\* points[mask] of __get_points
masked_points(params, frame, unfiltered) ==
    SelectSeq2(unfiltered,
               Stored([n \in 1..Len(unfiltered) |->
                   get_mask(params, frame, n - 1, unfiltered[n])]),
               1)

\* the unfiltered points of a frame, in pixel order
unfiltered_points(scan, frame, tan, look, elev, rot, time_rot) ==
    Stored([n \in 1..(scan.depth_height * scan.depth_width) |->
        get_unfiltered_point(scan, frame, tan, look, elev, rot, time_rot,
                             (n - 1) \div scan.depth_width,
                             (n - 1) % scan.depth_width)])

\* __get_points after __get_look_and_elev
get_points_looking(params, scan, frame, time_base, look) ==
    masked_points(params, frame,
        unfiltered_points(scan, frame, get_tan(scan), look, get_elev(scan),
                          get_rot(scan, look),
                          get_time_rot(scan, frame, time_base)))

\* __get_points handing every point that passes the mask over twice
get_points_twice(params, scan, frame, time_base) ==
    get_points_looking(params, scan, frame, time_base, get_look(scan))
        \o get_points_looking(params, scan, frame, time_base, get_look(scan))

\* __get_points: the points of one frame that pass the mask, in pixel order
get_points(params, scan, frame, time_base) ==
    get_points_looking(params, scan, frame, time_base, get_look(scan))

\* Rotation.from_rotvec is handed a NaN vector for this scan: look.z /
\* ||look.xy|| is 0/0 when look = eye - elev is the zero vector
rotvec_is_nan(scan) == \E k \in 1..3 : IsNaN(get_look_rot_vec(get_look(scan))[k])

\* the for loop of build_points_cloud from frame k on: the points collected
\* and the scans dict as the loop leaves it.  nan_raises says what the
\* installed scipy does with a NaN rotation vector: the pure-Python
\* Rotation (scipy < 1.6) takes scipy.linalg.norm of it, which raises
\* ValueError on non-finite input; the compiled one returns NaNs.
RECURSIVE build_loop(_, _, _, _, _, _, _)
build_loop(all_scans, all_frames, params, time_base, k, all_points, nan_raises) ==
    IF k > Len(all_frames)
    THEN [raised |-> "", points |-> all_points, scans |-> all_scans]
    ELSE LET frame == all_frames[k]
             scan == all_scans[frame.scan]
         IN  IF nan_raises /\ rotvec_is_nan(scan)
             THEN [raised |-> "ValueError", points |-> << >>,
                   scans |-> [all_scans EXCEPT ![frame.scan] = get_tan_scan(scan)]]
             ELSE build_loop([all_scans EXCEPT ![frame.scan] = get_tan_scan(scan)],
                             all_frames, params, time_base, k + 1,
                             all_points \o get_points(params, scan, frame, time_base),
                             nan_raises)

\* camera_angle of __get_time_rot: the spin angle of a frame
camera_angle(scan, frame, time_base) ==
    Mul(Div(Sub(frame.time, time_base), Num(NsPerSecond)),
        scan.camera_angular_velocity)

\* the spin angles build_points_cloud uses, one per frame
camera_angles(all_scans, all_frames) ==
    Stored([k \in 1..Len(all_frames) |->
        camera_angle(all_scans[all_frames[k].scan], all_frames[k],
                     all_frames[1].time)])

\* build_points_cloud with the spin angles taken from the timestamps as
\* they are, without a time base
build_points_cloud_absolute_time(all_scans, all_frames, params, nan_raises) ==
    build_loop(all_scans, all_frames, params, Zero, 1, << >>, nan_raises)

\* build_points_cloud(all_scans, all_frames, params): time_base is the time
\* of the first frame
build_points_cloud(all_scans, all_frames, params, nan_raises) ==
    build_loop(all_scans, all_frames, params, all_frames[1].time, 1, << >>, nan_raises)

\* PointsCloudParams(): the defaults of the constructor
DefaultParams ==
    [min_depth_confidence |-> Num(3), min_z |-> NegInf, max_z |-> PosInf,
     max_z_distance |-> PosInf]

---------------------------------------------------------------------------
(* SpecCloud: build_points_cloud applied to drawn scans, frames and        *)
(* params, and called again on the same scans with other params or with    *)
(* the frames in another order.  The installed Rotation (what it does with *)
(* a NaN rotation vector) is drawn once per run.                           *)

\* a scan with a 2x2 depth image and an angle of view of pi/2
CloudScan(velocity, position, elevation) ==
    [camera_angle_of_view |-> One, camera_angular_velocity |-> velocity,
     camera_initial_position |-> [x |-> position[1], y |-> position[2],
                                  z |-> position[3]],
     camera_landscape_angle |-> Zero, camera_view_elevation |-> elevation,
     depth_height |-> 2, depth_width |-> 2, sensor_plane_depth |-> FALSE]

\* the scans dicts drawn: scan "a" looks straight down from the origin
\* (look = (0, 0, -1)), has look = (0, 0, 0), or looks horizontally from
\* (3, 4, 0); scan "b" looks straight down and turns with the table
CloudScans ==
    { [key \in {"a", "b"} |->
          IF key = "a" THEN a ELSE CloudScan(One, <<Zero, Zero, Zero>>, One)] :
      a \in { CloudScan(One, <<Zero, Zero, Zero>>, One),
              CloudScan(Zero, <<Zero, Zero, Zero>>, Zero),
              CloudScan(One, <<Num(3), Num(4), Zero>>, Zero) } }

\* a frame of a 2x2 image: the centre pixel (index 3) holds depth d with
\* confidence c, the other three pixels depth 0 with confidence others
CloudFrame(key, seconds, d, c, others) ==
    [scan |-> key, time |-> Num(seconds * NsPerSecond),
     depths |-> <<Zero, Zero, Zero, d>>,
     depth_confidences |-> <<Num(others), Num(others), Num(others), Num(c)>>]

\* the frames sequences drawn
CloudFrames ==
    { <<CloudFrame("a", 0, One, 5, 0)>>,
      <<CloudFrame("a", 0, Rat(1, 2), 5, 5)>>,
      <<CloudFrame("a", 0, One, 3, 2)>>,
      <<CloudFrame("a", 0, One, 5, 0), CloudFrame("b", 1, Rat(1, 2), 5, 5)>>,
      <<CloudFrame("a", 2, Rat(1, 2), 3, 5), CloudFrame("a", 1, One, 5, 0)>> }

\* the PointsCloudParams drawn
CloudParams ==
    { DefaultParams,
      [DefaultParams EXCEPT !.min_depth_confidence = Num(5)],
      [DefaultParams EXCEPT !.max_z = One],
      [DefaultParams EXCEPT !.max_z = Rat(1, 2), !.min_depth_confidence = Num(5)],
      [DefaultParams EXCEPT !.min_z = One],
      [DefaultParams EXCEPT !.max_z_distance = Num(4)],
      [DefaultParams EXCEPT !.max_z_distance = Zero, !.min_z = Rat(1, 2),
                            !.max_z = One, !.min_depth_confidence = Num(5)] }

\* what the installed Rotation can do in a run over these scans and frames
CloudRotationOutcomes(all_scans, all_frames) ==
    IF \E k \in 1..Len(all_frames) : rotvec_is_nan(all_scans[all_frames[k].scan])
    THEN BOOLEAN ELSE {FALSE}

InitCloud ==
    /\ scans \in CloudScans
    /\ args = NoArgs
    /\ \E frames \in CloudFrames, params \in CloudParams :
       \E nan_raises \in CloudRotationOutcomes(scans, frames) :
            call = [fn |-> "input", for |-> "build_points_cloud",
                    frames |-> frames, params |-> params,
                    nan_raises |-> nan_raises]

\* the call before this one, as the next call remembers it
CloudCallBefore ==
    IF call.fn = "input" THEN << >>
    ELSE <<[frames |-> call.frames, params |-> call.params,
            raised |-> call.raised, points |-> call.points]>>

\* build_points_cloud(scans, frames, params) returns or raises
CloudFinish(frames, params, cloud) ==
    /\ scans' = cloud.scans
    /\ call' = [fn |-> "build_points_cloud", frames |-> frames,
                params |-> params, nan_raises |-> call.nan_raises,
                raised |-> cloud.raised, points |-> cloud.points,
                before |-> CloudCallBefore]
    /\ UNCHANGED args

BuildCloud ==
    /\ call.fn = "input"
    /\ call.for = "build_points_cloud"
    /\ CloudFinish(call.frames, call.params,
                   build_points_cloud(scans, call.frames, call.params,
                                      call.nan_raises))

\* the orders of n frames
FrameOrders(n) == {s \in [1..n -> 1..n] : \A p, q \in 1..n : s[p] = s[q] => p = q}

Reordered(frames, order) == Stored([k \in 1..Len(frames) |-> frames[order[k]]])

\* a second call with other params
BuildCloudWithParams ==
    /\ call.fn = "build_points_cloud"
    /\ call.before = << >>
    /\ \E params \in CloudParams :
           CloudFinish(call.frames, params,
                       build_points_cloud(scans, call.frames, params,
                                          call.nan_raises))

\* a second call with the frames in another order
BuildCloudReordered ==
    /\ call.fn = "build_points_cloud"
    /\ call.before = << >>
    /\ \E order \in FrameOrders(Len(call.frames)) :
           CloudFinish(Reordered(call.frames, order), call.params,
                       build_points_cloud(scans, Reordered(call.frames, order),
                                          call.params, call.nan_raises))

NextCloud == BuildCloud \/ BuildCloudWithParams \/ BuildCloudReordered

SpecCloud == InitCloud /\ [][NextCloud]_vars

(* ---- claims about build_points_cloud (SpecCloud) ---- *)

\* the global-frame points of all pixels of frame k, in pixel order, before
\* the mask
CloudUnfiltered(all_scans, frames, k) ==
    unfiltered_points(all_scans[frames[k].scan], frames[k],
                      get_tan(all_scans[frames[k].scan]),
                      get_look(all_scans[frames[k].scan]),
                      get_elev(all_scans[frames[k].scan]),
                      get_rot(all_scans[frames[k].scan],
                              get_look(all_scans[frames[k].scan])),
                      get_time_rot(all_scans[frames[k].scan], frames[k],
                                   frames[1].time))

\* the rule of the filter for pixel n (from 1) of a frame and its
\* global-frame point, every bound inclusive
KeepRule(params, frame, n, point) ==
    /\ Le(params.min_depth_confidence, frame.depth_confidences[n])
    /\ Le(params.min_z, point[3]) /\ Le(point[3], params.max_z)
    /\ Le(Norm(<<point[1], point[2]>>), params.max_z_distance)

\* the points of a frame whose pixels pass the rule, in pixel order
KeptByRule(params, frame, unfiltered) ==
    SelectSeq2(unfiltered,
               Stored([n \in 1..Len(unfiltered) |->
                   KeepRule(params, frame, n, unfiltered[n])]),
               1)

RECURSIVE AllKeptByRule(_, _, _, _)
\* the points that pass the rule from frame k on, frame after frame
AllKeptByRule(all_scans, frames, params, k) ==
    IF k > Len(frames) THEN << >>
    ELSE KeptByRule(params, frames[k], CloudUnfiltered(all_scans, frames, k))
             \o AllKeptByRule(all_scans, frames, params, k + 1)

\* build_points_cloud returned
CloudReturned == call.fn = "build_points_cloud" /\ call.raised = ""

\* C13: the output of build_points_cloud holds the point of a pixel iff
\* its confidence >= min_depth_confidence, min_z <= point.z <= max_z and
\* ||point.xy|| <= max_z_distance, bounds inclusive, on the global-frame
\* point after the time rotation; nothing else (a zero depth) removes a pixel.
C13_KeptIffFilterRule ==
    CloudReturned =>
        call.points = AllKeptByRule(scans, call.frames, call.params, 1)

\* the centre pixel has confidence = min_depth_confidence and its point has
\* z = max_z: the point is in the output; the other pixels, of confidence
\* 2, are not
C13_Witness ==
    /\ CloudReturned
    /\ call.params.max_z = One
    /\ call.frames = <<CloudFrame("a", 0, One, 3, 2)>>
    /\ call.params.min_depth_confidence = Num(3)
    /\ call.points = <<<<Zero, Zero, One>>>>

\* params p are at least as tight as params q in every field
Tighter(p, q) ==
    /\ Ge(p.min_depth_confidence, q.min_depth_confidence)
    /\ Ge(p.min_z, q.min_z)
    /\ Le(p.max_z, q.max_z)
    /\ Le(p.max_z_distance, q.max_z_distance)

\* the number of entries of s equal to e
CountOf(s, e) == Cardinality({k \in 1..Len(s) : s[k] = e})

\* every entry of s occurs in t at least as often as in s
SubBag(s, t) == \A k \in 1..Len(s) : CountOf(s, s[k]) <= CountOf(t, s[k])

\* the call follows a call on the same scans and the same frames sequence,
\* and both returned
CloudSameFramesAgain ==
    /\ CloudReturned
    /\ call.before # << >>
    /\ call.before[1].raised = ""
    /\ call.before[1].frames = call.frames

\* C14: for fixed scans and frames, build_points_cloud with a higher
\* min_depth_confidence, a higher min_z, a lower max_z or a lower
\* max_z_distance returns no more points than with the looser params, and
\* the points it returns are among those returned with the looser params.
C14_FilteringMonotonic ==
    (CloudSameFramesAgain /\ Tighter(call.params, call.before[1].params))
        => /\ Len(call.points) <= Len(call.before[1].points)
           /\ SubBag(call.points, call.before[1].points)

\* tightening every field of the default params left one of four points
C14_Witness ==
    /\ CloudSameFramesAgain
    /\ call.before[1].params = DefaultParams
    /\ call.params.max_z_distance = Zero
    /\ Tighter(call.params, call.before[1].params)
    /\ Len(call.before[1].points) = 4
    /\ Len(call.points) = 1

RECURSIVE PixelCount(_, _, _)
\* the sum over the frames from k on of depth_width x depth_height of the
\* frame's scan
PixelCount(all_scans, frames, k) ==
    IF k > Len(frames) THEN 0
    ELSE all_scans[frames[k].scan].depth_width
             * all_scans[frames[k].scan].depth_height
         + PixelCount(all_scans, frames, k + 1)

\* C15: build_points_cloud returns at most as many points as the frames
\* have pixels (the sum over frames of depth_width x depth_height of the
\* frame's scan).
C15_AtMostOnePointPerPixel ==
    CloudReturned => Len(call.points) <= PixelCount(scans, call.frames, 1)

\* two frames with eight pixels, of which the one confident pixel of the
\* first and all four of the second gave a point
C15_Witness ==
    /\ CloudReturned
    /\ Len(call.frames) = 2
    /\ PixelCount(scans, call.frames, 1) = 8
    /\ Len(call.points) = 5

\* g holds the frames of f in some order
IsReordering(f, g) ==
    /\ Len(f) = Len(g)
    /\ \E order \in FrameOrders(Len(f)) : g = Reordered(f, order)

\* the call follows a call on the same scans and params whose frames
\* sequence held the same frames
CloudReorderedAgain ==
    /\ call.fn = "build_points_cloud"
    /\ call.before # << >>
    /\ call.before[1].params = call.params
    /\ IsReordering(call.before[1].frames, call.frames)

\* C16: for the same scans and params, build_points_cloud returns the same
\* number of points for every order of the same frames (the order decides
\* which frame's timestamp is the time base).
C16_CountInvariantToFrameOrder ==
    CloudReorderedAgain =>
        /\ call.raised = call.before[1].raised
        /\ Len(call.points) = Len(call.before[1].points)

\* two frames with different timestamps were built in both orders, with
\* different time bases, and gave the same non-empty number of points
C16_Witness ==
    /\ CloudReorderedAgain
    /\ CloudReturned
    /\ Len(call.frames) = 2
    /\ call.frames[1].time # call.before[1].frames[1].time
    /\ Len(call.points) = Len(call.before[1].points)
    /\ Len(call.points) >= 2
    /\ call.points # call.before[1].points

\* the call was handed one scan with angular velocity 0, position (0, 0, 0),
\* elevation 0 and landscape angle 0, one frame whose only confident pixel
\* is the centre one (confidence 5, depth 1) and the default params
CentrePixelScenario ==
    /\ call.fn = "build_points_cloud"
    /\ scans["a"] = CloudScan(Zero, <<Zero, Zero, Zero>>, Zero)
    /\ call.frames = <<CloudFrame("a", 0, One, 5, 0)>>
    /\ call.params = DefaultParams

\* C17: in the centre-pixel scenario (look = eye - elev = (0, 0, 0))
\* build_points_cloud returns exactly one point.
C17_CentrePixelGivesOnePoint ==
    CentrePixelScenario => call.raised = "" /\ Len(call.points) = 1

---------------------------------------------------------------------------
(* SpecShift: build_points_cloud on drawn scans and frames, then on the    *)
(* same frames with one constant added to every timestamp.                 *)

\* the constants added, in nanoseconds
CloudShifts == {Num(-1000000000), Num(-2000000000)}

\* the frames with shift added to every timestamp
Shifted(frames, shift) ==
    Stored([k \in 1..Len(frames) |-> [frames[k] EXCEPT !.time = Add(@, shift)]])

\* a second call with every timestamp shifted
BuildCloudShifted ==
    /\ call.fn = "build_points_cloud"
    /\ call.before = << >>
    /\ \E shift \in CloudShifts :
           CloudFinish(Shifted(call.frames, shift), call.params,
                       build_points_cloud(scans, Shifted(call.frames, shift),
                                          call.params, call.nan_raises))

NextShift == BuildCloud \/ BuildCloudShifted

SpecShift == InitCloud /\ [][NextShift]_vars

(* ---- claims about the time base of build_points_cloud (SpecShift) ---- *)

\* the call before was made on the frames of this call, one constant apart
\* in every timestamp
CloudShiftedAgain ==
    /\ call.fn = "build_points_cloud"
    /\ call.before # << >>
    /\ Len(call.before[1].frames) = Len(call.frames)
    /\ call.before[1].params = call.params
    /\ \E shift \in CloudShifts :
           call.frames = Shifted(call.before[1].frames, shift)

\* C27: the spin angle of frame k is (time of frame k - time of the first
\* frame) / 1e9 times the angular velocity of its scan, 0 for the first
\* frame, and a call on the same frames with one constant added to every
\* timestamp returns the same points.
C27_SpinFromFirstFrame ==
    call.fn = "build_points_cloud" =>
        /\ camera_angles(scans, call.frames)[1] = Zero
        /\ \A k \in 1..Len(call.frames) :
               camera_angles(scans, call.frames)[k]
                   = Mul(Div(Sub(call.frames[k].time, call.frames[1].time),
                             <<1000000000, 1>>),
                         scans[call.frames[k].scan].camera_angular_velocity)
        /\ CloudShiftedAgain =>
               /\ call.raised = call.before[1].raised
               /\ call.points = call.before[1].points

\* two frames a quarter turn apart, shifted, gave the same two points
C27_Witness ==
    /\ CloudShiftedAgain
    /\ call.raised = ""
    /\ Len(call.frames) = 2
    /\ camera_angles(scans, call.frames)[2] # Zero
    /\ call.frames[1].time # Zero
    /\ Len(call.points) >= 2
    /\ call.points = call.before[1].points

---------------------------------------------------------------------------
(* objectives.py: the four cost functions.                                 *)
(*                                                                         *)
(* Each cost function is an operator over the scans dict it is handed, the *)
(* fields of its args tuple, the parameter vector x and the choices the    *)
(* environment makes during the call (the permutation np.random.shuffle    *)
(* leaves, what the installed Rotation does with NaN).  Its value records  *)
(* the exception that left the call (raised), the value returned (ret),    *)
(* the scans dict as the call leaves it, and whether and what              *)
(* build_points_cloud returned to it (built, points).                      *)

\* the writes left out altogether for an x that places the camera at the
\* origin
write_scan_unless_origin(scan, x, i) ==
    IF <<x[5 * i + 1], x[5 * i + 2], x[5 * i + 3]>> = <<Zero, Zero, Zero>>
    THEN scan
    ELSE [scan EXCEPT !.camera_initial_position =
                          [x |-> x[5 * i + 1], y |-> x[5 * i + 2], z |-> x[5 * i + 3]],
                      !.camera_view_elevation = x[5 * i + 4],
                      !.camera_landscape_angle = x[5 * i + 5]]

\* the body of the loop `for i, key in enumerate(scans_keys)` with the
\* last two stores exchanged
write_scan_exchanged(scan, x, i) ==
    [scan EXCEPT !.camera_initial_position =
                     [x |-> x[5 * i + 1], y |-> x[5 * i + 2], z |-> x[5 * i + 3]],
                 !.camera_view_elevation = x[5 * i + 5],
                 !.camera_landscape_angle = x[5 * i + 4]]

\* the body of the loop `for i, key in enumerate(scans_keys)`: the five
\* stores into scans[key], for Python index i
write_scan(scan, x, i) ==
    [scan EXCEPT !.camera_initial_position =
                     [x |-> x[5 * i + 1], y |-> x[5 * i + 2], z |-> x[5 * i + 3]],
                 !.camera_view_elevation = x[5 * i + 4],
                 !.camera_landscape_angle = x[5 * i + 5]]

RECURSIVE write_loop(_, _, _, _)
\* the loop over scans_keys from Python index i on
write_loop(all_scans, scans_keys, x, i) ==
    IF i >= Len(scans_keys) THEN all_scans
    ELSE write_loop([all_scans EXCEPT ![scans_keys[i + 1]] = write_scan(@, x, i)],
                    scans_keys, x, i + 1)

\* the value a cost function returns for an empty cloud
SentinelProjections == 1000000

\* the value local_plane_uniform_cost returns for an empty cloud
SentinelLocalPlane == 100000000

Raised(exc, all_scans) ==
    [raised |-> exc, ret |-> NaN, scans |-> all_scans, built |-> FALSE, points |-> << >>]

Returned(value, all_scans, points) ==
    [raised |-> "", ret |-> value, scans |-> all_scans, built |-> TRUE, points |-> points]

\* sep_planes of __find_projections_on_different_views
sep_planes ==
    <<<<One, Zero, Zero, Zero>>, <<Num(-1), One, Zero, Zero>>,
      <<Zero, One, Zero, Zero>>, <<One, One, Zero, Zero>>>>

\* projection_planes[v][1] is sep_planes[v] with D - 2, [v][2] with D + 2
projection_planes ==
    Stored([v \in 1..4 |-> <<[sep_planes[v] EXCEPT ![4] = Sub(@, Num(2))],
                      [sep_planes[v] EXCEPT ![4] = Add(@, Num(2))]>>])

\* the sign test with >= 0 in place of > 0
points_sep_group_nonneg(pt, v) == Ge(plane_eq(pt, sep_planes[v]), Zero)

\* points_sep_groups: the sign test of point pt against separating plane v
points_sep_group(pt, v) == Gt(plane_eq(pt, sep_planes[v]), Zero)

\* the projection of point pt on the plane its group selects for view v
view_projection(pt, v) ==
    project_point_to_plane(pt,
        IF points_sep_group(pt, v) THEN projection_planes[v][1]
        ELSE projection_planes[v][2])

\* __find_projections_on_different_views: projections[v][n]
find_projections_on_different_views(points) ==
    Stored([v \in 1..4 |-> Stored([n \in 1..Len(points) |-> view_projection(points[n], v)])])

\* the part of multiple_projections_cost after the guard: shuffled is the
\* permutation of the point indices np.random.shuffle leaves
multiple_projections_sum(points, dist_count, shuffled) ==
    LET projections == find_projections_on_different_views(points)
        taken == IF dist_count < Len(points) THEN dist_count ELSE Len(points)
        inds_for_dist == SubSeq(shuffled, 1, taken)
        dist == Stored([v \in 1..4 |->
                    pairwise_dist_square_sum(
                        Stored([k \in 1..taken |-> projections[v][inds_for_dist[k]]]))])
    IN  Div(SumSeq(dist), Num(Len(points)))

\* multiple_projections_cost from the return of build_points_cloud on,
\* without its guard on points_count
multiple_projections_after_build_unguarded(cloud, cargs, shuffled) ==
    IF cloud.raised # "" THEN Raised(cloud.raised, cloud.scans)
    ELSE Returned(multiple_projections_sum(cloud.points, cargs.dist_count, shuffled),
                  cloud.scans, cloud.points)

\* multiple_projections_cost from the return of build_points_cloud on
multiple_projections_after_build(cloud, cargs, shuffled) ==
    IF cloud.raised # "" THEN Raised(cloud.raised, cloud.scans)
    ELSE IF Len(cloud.points) = 0
    THEN Returned(Num(SentinelProjections), cloud.scans, cloud.points)
    ELSE Returned(multiple_projections_sum(cloud.points, cargs.dist_count, shuffled),
                  cloud.scans, cloud.points)

\* multiple_projections_cost(x, args)
multiple_projections_cost(all_scans, cargs, x, shuffled, nan_raises) ==
    multiple_projections_after_build(
        build_points_cloud(write_loop(all_scans, cargs.scans_keys, x, 0),
                           cargs.frames, cargs.build_points_cloud_params, nan_raises),
        cargs, shuffled)

\* the surface interpolator ip of multiple_projections_interp_cost, given
\* by the coefficients of z = ip[1] * x + ip[2] * y + ip[3]
interp_surface(ip, pt) ==
    Add3(Mul(ip[1], pt[1]), Mul(ip[2], pt[2]), ip[3])

\* the value 1 / 2000 of interp_scale
InterpScaleInv == 2000

\* the residuals summed without squaring them
interp_cost_unsquared(ip, points) ==
    SumSeq(Stored([n \in 1..Len(points) |->
        Sub(interp_surface(ip, points[n]), points[n][3])]))

\* interp_cost: np.sum((ip(points[:, :2]) - points[:, 2]) ** 2)
interp_cost(ip, points) ==
    SumSeq(Stored([n \in 1..Len(points) |->
        Sq(Sub(interp_surface(ip, points[n]), points[n][3]))]))

\* multiple_projections_interp_cost from the return of the inner
\* multiple_projections_cost on
interp_after_inner(cloud, inner, cargs) ==
    IF inner.raised # "" THEN Raised(inner.raised, inner.scans)
    ELSE Returned(Add(Mul(One, inner.ret),
                      Mul(Rat(1, InterpScaleInv),
                          interp_cost(cargs.ip_surface, cloud.points))),
                  inner.scans, cloud.points)

\* multiple_projections_interp_cost from the return of build_points_cloud
\* on: the inner multiple_projections_cost(x, mult_proj_args) writes x and
\* rebuilds the cloud again
interp_after_build(cloud, cargs, x, shuffled, nan_raises) ==
    IF cloud.raised # "" THEN Raised(cloud.raised, cloud.scans)
    ELSE IF Len(cloud.points) = 0
    THEN Returned(Num(SentinelProjections), cloud.scans, cloud.points)
    ELSE interp_after_inner(cloud,
             multiple_projections_cost(cloud.scans, cargs, x, shuffled, nan_raises),
             cargs)

\* multiple_projections_interp_cost(x, args)
multiple_projections_interp_cost(all_scans, cargs, x, shuffled, nan_raises) ==
    interp_after_build(
        build_points_cloud(write_loop(all_scans, cargs.scans_keys, x, 0),
                           cargs.frames, cargs.build_points_cloud_params, nan_raises),
        cargs, x, shuffled, nan_raises)

\* np.linspace(lo, hi, count)
linspace(lo, hi, count) ==
    Stored([k \in 1..count |-> Add(lo, Mul(Num(k - 1), Div(Sub(hi, lo), Num(count - 1))))])

\* xcount and ycount of points_in_neighborhood_cost (101 and 71 in the
\* source), and dens_xcount = dens_ycount of local_plane_uniform_cost (121):
\* the grids span the windows of the source with fewer nodes
NeighborhoodXCount == 3

NeighborhoodYCount == 3

LocalPlaneDensCount == 3

\* np.sqrt(2) / 2
HalfSqrt2 == Div(Sqrt(Num(2)), Num(2))

\* transformed_projections[v] of one projection pr of view v (1..4)
transformed_projection(pr, v) ==
    CASE v = 1 -> <<pr[2], pr[3]>>
      [] v = 2 -> <<Add(Mul(pr[1], HalfSqrt2), Mul(pr[2], HalfSqrt2)), pr[3]>>
      [] v = 3 -> <<pr[1], pr[3]>>
      [] v = 4 -> <<Add(Mul(pr[1], Neg(HalfSqrt2)), Mul(pr[2], HalfSqrt2)), pr[3]>>

\* a silhouette interpolator ip[i][j], given by the coefficients of
\* y = sil[1] * x + sil[2]
silhouette(sil, xx) == Add(Mul(sil[1], xx), sil[2])

\* contour at grid node (yy, xx): -0.4 <= xx <= 0.4 and 0 <= yy <= ip[i][j](xx)
contour(sil, xx, yy) ==
    /\ Le(Rat(-2, 5), xx) /\ Le(xx, Rat(2, 5))
    /\ Le(Zero, yy) /\ Le(yy, silhouette(sil, xx))

\* goal_dens before its normalisation: np.where(contour[:-1, :-1], 1.0, 0.0)
goal_indicator(sil, xgrid, ygrid) ==
    Stored([r \in 1..(Len(ygrid) - 1) |-> Stored([c \in 1..(Len(xgrid) - 1) |->
        IF contour(sil, xgrid[c], ygrid[r]) THEN One ELSE Zero])])

\* np.sum over a grid
SumGrid(g) == SumSeq(Stored([r \in 1..Len(g) |-> SumSeq(g[r])]))

\* np.sum((g - h) ** 2) over two grids of one shape
SumSquareDiff(g, h) ==
    SumSeq(Stored([r \in 1..Len(g) |->
        SumSeq(Stored([c \in 1..Len(g[r]) |-> Sq(Sub(g[r][c], h[r][c]))]))]))

\* the term one pass of the loops `for i in range(4): for j in range(2)`
\* adds to cost, for view v = i + 1 and side j
neighborhood_term(points, ip, v, j, xgrid, ygrid) ==
    LET xstep == Div(Sub(Rat(1, 2), Rat(-1, 2)), Num(Len(xgrid) - 1))
        ystep == Div(Sub(Rat(13, 20), Rat(-1, 20)), Num(Len(ygrid) - 1))
        projs_inds == Stored([n \in 1..Len(points) |->
            IF j = 0 THEN points_sep_group(points[n], v)
            ELSE ~points_sep_group(points[n], v)])
        transformed == Stored([n \in 1..Len(points) |->
            transformed_projection(view_projection(points[n], v), v)])
        projs == SelectSeq2(transformed, projs_inds, 1)
        indicator == goal_indicator(ip[v][j + 1], xgrid, ygrid)
        vol == SumGrid(Stored([r \in 1..Len(indicator) |-> Stored([c \in 1..Len(indicator[r]) |->
                    Mul(Mul(indicator[r][c], xstep), ystep)])]))
        goal_dens == Stored([r \in 1..Len(indicator) |-> Stored([c \in 1..Len(indicator[r]) |->
                    Div(indicator[r][c], vol)])])
        real_dens == eval_dens(projs, xgrid, ygrid)
    IN  SumSquareDiff(goal_dens, real_dens)

\* the loop of points_in_neighborhood_cost over the four views and the two
\* sides of each separating plane
neighborhood_terms(points, ip, xgrid, ygrid) ==
    SumSeq(Stored([t \in 1..8 |->
        neighborhood_term(points, ip, ((t - 1) \div 2) + 1, (t - 1) % 2,
                          xgrid, ygrid)]))

\* the part of points_in_neighborhood_cost after the guard
neighborhood_sum(points, ip) ==
    Div(neighborhood_terms(points, ip,
                           linspace(Rat(-1, 2), Rat(1, 2), NeighborhoodXCount),
                           linspace(Rat(-1, 20), Rat(13, 20), NeighborhoodYCount)),
        Num(Len(points)))

\* points_in_neighborhood_cost from the return of build_points_cloud on
neighborhood_after_build(cloud, cargs) ==
    IF cloud.raised # "" THEN Raised(cloud.raised, cloud.scans)
    ELSE IF Len(cloud.points) = 0
    THEN Returned(Num(SentinelProjections), cloud.scans, cloud.points)
    ELSE Returned(neighborhood_sum(cloud.points, cargs.ip), cloud.scans, cloud.points)

\* points_in_neighborhood_cost(x, args)
points_in_neighborhood_cost(all_scans, cargs, x, nan_raises) ==
    neighborhood_after_build(
        build_points_cloud(write_loop(all_scans, cargs.scans_keys, x, 0),
                           cargs.frames, cargs.build_points_cloud_params, nan_raises),
        cargs)

\* np.argmin: the first index of the least entry
ArgMin(s) ==
    CHOOSE k \in 1..Len(s) :
        /\ \A m \in 1..Len(s) : Le(s[k], s[m])
        /\ \A m \in 1..(k - 1) : Lt(s[k], s[m])

\* row m of distances = cdist(base_points, points), squared: np.argmin of
\* the Euclidean distances is np.argmin of their squares
cdist_square_row(bp, points) == Stored([n \in 1..Len(points) |-> dist_square(bp, points[n])])

\* nearest_points_inds of a base point
nearest_points_ind(bp, points) == ArgMin(cdist_square_row(bp, points))

\* second_nearest_points_inds of a base point: the entry of the nearest
\* point is set to inf first (with one point it is therefore the same point)
second_nearest_points_ind(bp, points) ==
    ArgMin([cdist_square_row(bp, points) EXCEPT ![nearest_points_ind(bp, points)] = PosInf])

\* nearest_base_points_inds of a point
nearest_base_points_ind(pt, base_points) ==
    ArgMin(Stored([m \in 1..Len(base_points) |-> dist_square(base_points[m], pt)]))

\* the sum of six signed products that det, other_planes_a and
\* other_planes_b share: b[p]*n[q] + n[p]*s[q] + s[p]*b[q]
\*                       - s[p]*n[q] - n[p]*b[q] - b[p]*s[q]
plane_minor(b, n, s, p, q) ==
    Sub(Sub(Sub(Add(Add(Mul(b[p], n[q]), Mul(n[p], s[q])), Mul(s[p], b[q])),
                Mul(s[p], n[q])), Mul(n[p], b[q])), Mul(b[p], s[q]))

\* other_planes_d before its division by det
plane_offset(b, n, s) ==
    Sub(Sub(Sub(Add(Add(Mul3(b[1], n[2], s[3]), Mul3(n[1], s[2], b[3])),
                    Mul3(s[1], b[2], n[3])),
                Mul3(s[1], n[2], b[3])), Mul3(n[1], b[2], s[3])), Mul3(b[1], s[2], n[3]))

\* the plane with the y fallback tested before the x fallback
local_plane_y_first(b, n, s) ==
    LET all_x_are_equal == /\ float_equals(b[1], n[1], Eps8)
                           /\ float_equals(n[1], s[1], Eps8)
        all_y_are_equal == /\ float_equals(b[2], n[2], Eps8)
                           /\ float_equals(n[2], s[2], Eps8)
        det == plane_minor(b, n, s, 1, 2)
    IN  IF all_y_are_equal THEN <<Zero, One, Zero, Sub(Zero, b[2])>>
        ELSE IF all_x_are_equal THEN <<One, Zero, Zero, Sub(Zero, b[1])>>
        ELSE <<Div(plane_minor(b, n, s, 3, 2), det),
               Div(plane_minor(b, n, s, 1, 3), det),
               Num(-1),
               Div(plane_offset(b, n, s), det)>>

\* planes[m]: the plane through base point b, its nearest point n and its
\* second nearest point s
local_plane(b, n, s) ==
    LET all_x_are_equal == /\ float_equals(b[1], n[1], Eps8)
                           /\ float_equals(n[1], s[1], Eps8)
        all_y_are_equal == /\ float_equals(b[2], n[2], Eps8)
                           /\ float_equals(n[2], s[2], Eps8)
        det == plane_minor(b, n, s, 1, 2)
    IN  IF all_x_are_equal THEN <<One, Zero, Zero, Sub(Zero, b[1])>>
        ELSE IF all_y_are_equal THEN <<Zero, One, Zero, Sub(Zero, b[2])>>
        ELSE <<Div(plane_minor(b, n, s, 3, 2), det),
               Div(plane_minor(b, n, s, 1, 3), det),
               Num(-1),
               Div(plane_offset(b, n, s), det)>>

\* the tolerance of a_neq_zero and b_neq_zero in local_plane_uniform_cost
Eps1 == <<1, 10>>

\* projections[n]: the inline projection of local_plane_uniform_cost, whose
\* three closed forms are those of utils.py
local_projection(pt, pl) ==
    LET a_neq_zero == ~float_equals(pl[1], Zero, Eps1)
        b_neq_zero == ~float_equals(pl[2], Zero, Eps1)
        det_planes == IF a_neq_zero THEN Mul(pl[1], planes_sum_square(pl))
                      ELSE IF b_neq_zero THEN Mul(pl[2], planes_sum_square(pl))
                      ELSE Mul(pl[3], planes_sum_square(pl))
    IN  IF float_equals(plane_eq(pt, pl), Zero, Eps8) THEN pt
        ELSE IF a_neq_zero THEN find_projections_a_neq_zero(pt, pl, det_planes)
        ELSE IF b_neq_zero THEN find_projections_b_neq_zero(pt, pl, det_planes)
        ELSE find_projections_c_neq_zero(pt, pl, det_planes)

\* v / n, entry by entry
VecDiv(v, n) == Stored([k \in 1..Len(v) |-> Div(v[k], n)])

\* v /= np.linalg.norm(v)
Normalized(v) == VecDiv(v, Norm(v))

\* new_basis_y before its normalisation, from new_basis_z and new_basis_x
basis_cross(z, x) ==
    <<Sub(Mul(z[3], x[2]), Mul(z[2], x[3])),
      Sub(Mul(z[1], x[3]), Mul(z[3], x[1])),
      Sub(Mul(z[2], x[1]), Mul(z[1], x[2]))>>

\* the matrix with columns x, y, z
basis_matrix(x, y, z) == Stored([r \in 1..3 |-> <<x[r], y[r], z[r]>>])

\* the transition matrix of the normalised new_basis_x and new_basis_z
transition_of(new_basis_x, new_basis_z) ==
    basis_matrix(new_basis_x, Normalized(basis_cross(new_basis_z, new_basis_x)),
                 new_basis_z)

\* transition_matrices[m]: the columns new_basis_x, new_basis_y, new_basis_z
\* of base point b, its second nearest point s and its plane pl
transition_matrix(b, s, pl) ==
    transition_of(Normalized(VecSub(s, b)), Normalized(<<pl[1], pl[2], pl[3]>>))

Det3(m) ==
    Add3(Mul(m[1][1], Sub(Mul(m[2][2], m[3][3]), Mul(m[2][3], m[3][2]))),
         Neg(Mul(m[1][2], Sub(Mul(m[2][1], m[3][3]), Mul(m[2][3], m[3][1])))),
         Mul(m[1][3], Sub(Mul(m[2][1], m[3][2]), Mul(m[2][2], m[3][1]))))

HasNonFinite(m) == \E r \in 1..3, c \in 1..3 : ~IsFinite(m[r][c])

\* np.linalg.inv raises LinAlgError for a matrix that is exactly singular;
\* a matrix with NaN or inf entries has no zero pivot and is not refused
inv_raises(m) == ~HasNonFinite(m) /\ Det3(m) = Zero

\* np.linalg.inv of a 3x3 matrix (adjugate over determinant); NaNs for a
\* matrix with non-finite entries
inv(m) ==
    IF HasNonFinite(m) THEN NaNRot
    ELSE LET det == Det3(m)
             cof(r, c) ==
                 LET r1 == (r % 3) + 1
                     r2 == ((r + 1) % 3) + 1
                     c1 == (c % 3) + 1
                     c2 == ((c + 1) % 3) + 1
                 IN  Sub(Mul(m[r1][c1], m[r2][c2]), Mul(m[r1][c2], m[r2][c1]))
         IN  Stored([r \in 1..3 |-> Stored([c \in 1..3 |-> Div(cof(c, r), det)])])

\* every out[i] computed from the first matrix
batch_dot_first_matrix(matrices, vectors) ==
    Stored([i \in 1..Len(matrices) |-> MatVec(matrices[1], vectors[i])])

\* batch_dot(matrices, vectors): out[i] = np.dot(matrices[i], vectors[i])
batch_dot(matrices, vectors) ==
    Stored([i \in 1..Len(matrices) |-> MatVec(matrices[i], vectors[i])])

\* the values 1 / 20 of scale_pp and 1 / 25000 of scale_dg
ScalePpInv == 20

ScaleDgInv == 25000

\* second_nearest_points, one per base point
second_nearest_points(base_points, points) ==
    Stored([m \in 1..Len(base_points) |->
        points[second_nearest_points_ind(base_points[m], points)]])

\* planes, one per base point
local_planes(base_points, points) ==
    Stored([m \in 1..Len(base_points) |->
        local_plane(base_points[m],
                    points[nearest_points_ind(base_points[m], points)],
                    points[second_nearest_points_ind(base_points[m], points)])])

\* projections: each point onto the plane of its nearest base point
local_projections(base_points, points, planes) ==
    Stored([n \in 1..Len(points) |->
        local_projection(points[n],
                         planes[nearest_base_points_ind(points[n], base_points)])])

\* transition_matrices, one per base point
transition_matrices(base_points, second, planes) ==
    Stored([m \in 1..Len(base_points) |->
        transition_matrix(base_points[m], second[m], planes[m])])

\* transformed_projections[:, :2]: batch_dot of the inverse transition
\* matrix of each point's nearest base point with the point's projection
transformed_projections(base_points, points, projections, matrices) ==
    Stored([n \in 1..Len(points) |->
        SubSeq(batch_dot(
                   <<inv(matrices[nearest_base_points_ind(points[n], base_points)])>>,
                   <<projections[n]>>)[1], 1, 2)])

\* np.sum((dens - dens_goal) ** 2) with every entry of dens_goal equal to goal
SumSquareDiffConst(dens, goal) ==
    SumSeq(Stored([r \in 1..Len(dens) |->
        SumSeq(Stored([c \in 1..Len(dens[r]) |-> Sq(Sub(dens[r][c], goal))]))]))

\* quasi_dist_dens_goal
quasi_dist_dens_goal(transformed, dens_range) ==
    SumSquareDiffConst(
        eval_dens(transformed, dens_range, dens_range),
        Div(One, Mul(Sub(Rat(3, 5), Rat(-3, 5)), Sub(Rat(3, 5), Rat(-3, 5)))))

\* quasi_dist_points_projections
quasi_dist_points_projections(points, projections) ==
    SumSeq(Stored([n \in 1..Len(points) |-> dist_square(points[n], projections[n])]))

\* local_plane_uniform_cost from the projections and transition matrices on
local_plane_output(base_points, points, projections, matrices) ==
    IF \E m \in 1..Len(matrices) : inv_raises(matrices[m])
    THEN [raised |-> "LinAlgError", ret |-> NaN]
    ELSE [raised |-> "",
          ret |-> Add(Mul(Rat(1, ScalePpInv),
                          quasi_dist_points_projections(points, projections)),
                      Mul(Rat(1, ScaleDgInv),
                          quasi_dist_dens_goal(
                              transformed_projections(base_points, points,
                                                      projections, matrices),
                              linspace(Rat(-3, 5), Rat(3, 5), LocalPlaneDensCount))))]

\* local_plane_uniform_cost from the planes on
local_plane_on_planes(base_points, points, planes) ==
    local_plane_output(base_points, points,
        local_projections(base_points, points, planes),
        transition_matrices(base_points,
                            second_nearest_points(base_points, points), planes))

\* the part of local_plane_uniform_cost after the guard
local_plane_sum(base_points, points) ==
    local_plane_on_planes(base_points, points, local_planes(base_points, points))

\* local_plane_uniform_cost after the guard, with what the cloud gave
local_plane_finish(cloud, rest) ==
    [raised |-> rest.raised, ret |-> rest.ret, scans |-> cloud.scans,
     built |-> TRUE, points |-> cloud.points]

\* local_plane_uniform_cost from the return of build_points_cloud on
local_plane_after_build(cloud, cargs) ==
    IF cloud.raised # "" THEN Raised(cloud.raised, cloud.scans)
    ELSE IF Len(cloud.points) = 0 \/ Len(cargs.base_points) = 0
    THEN Returned(Num(SentinelLocalPlane), cloud.scans, cloud.points)
    ELSE local_plane_finish(cloud, local_plane_sum(cargs.base_points, cloud.points))

\* local_plane_uniform_cost(x, args)
local_plane_uniform_cost(all_scans, cargs, x, nan_raises) ==
    local_plane_after_build(
        build_points_cloud(write_loop(all_scans, cargs.scans_keys, x, 0),
                           cargs.frames, cargs.build_points_cloud_params, nan_raises),
        cargs)


---------------------------------------------------------------------------
(* SpecBatch: batch_dot applied to drawn arrays of matrices and vectors.   *)

\* the shape (N1, n1, m1) of matrices and (N2, m2) of vectors
matrices_shape(matrices) ==
    <<Len(matrices), Len(matrices[1]), Len(matrices[1][1])>>

vectors_shape(vectors) == <<Len(vectors), Len(vectors[1])>>

\* the test of __batch_dot: N1 != N2 or m1 != m2
batch_dot_mismatch(mshape, vshape) ==
    mshape[1] # vshape[1] \/ mshape[3] # vshape[2]

\* batch_dot as a call: it raises ValueError('Shape mismatch!') before out
\* exists, or returns out
batch_dot_call(matrices, vectors) ==
    IF batch_dot_mismatch(matrices_shape(matrices), vectors_shape(vectors))
    THEN [raised |-> "ValueError", out |-> << >>]
    ELSE [raised |-> "", out |-> batch_dot(matrices, vectors)]

\* the most matrices and vectors drawn
BatchMaxCount == 2

\* the row and column counts drawn
BatchDims == 1..3

\* the n x m matrices drawn: the identity pattern, a constant matrix and a
\* matrix of distinct entries
BatchMatrices(n, m) ==
    { Stored([r \in 1..n |-> Stored([c \in 1..m |-> IF r = c THEN One ELSE Zero])]),
      Stored([r \in 1..n |-> Stored([c \in 1..m |-> Num(2)])]),
      Stored([r \in 1..n |-> Stored([c \in 1..m |-> Rat(r - 2 * c, 2)])]) }

\* the vectors of length m drawn
BatchVectors(m) ==
    { Stored([c \in 1..m |-> One]), Stored([c \in 1..m |-> Num(c - 2)]),
      Stored([c \in 1..m |-> Rat(-3, c + 1)]) }

InitBatch ==
    /\ scans = NoScans
    /\ args = NoArgs
    /\ \E n1 \in BatchDims, m1 \in BatchDims, m2 \in BatchDims :
       \E ms \in SeqsUpTo(BatchMatrices(n1, m1), BatchMaxCount) \ {<< >>} :
       \E vs \in SeqsUpTo(BatchVectors(m2), BatchMaxCount) \ {<< >>} :
            call = [fn |-> "input", for |-> "batch_dot",
                    matrices |-> ms, vectors |-> vs]

BatchDotResult(matrices, vectors, result) ==
    [fn |-> "batch_dot", matrices |-> matrices, vectors |-> vectors,
     raised |-> result.raised, out |-> result.out]

BatchDot ==
    /\ call.fn = "input"
    /\ call.for = "batch_dot"
    /\ call' = BatchDotResult(call.matrices, call.vectors,
                              batch_dot_call(call.matrices, call.vectors))
    /\ UNCHANGED <<scans, args>>

NextBatch == BatchDot

SpecBatch == InitBatch /\ [][NextBatch]_vars

(* ---- claims about batch_dot (SpecBatch) ---- *)

RECURSIVE RowTimesVector(_, _, _)
\* row[c] * v[c] summed from column c on
RowTimesVector(row, v, c) ==
    IF c > Len(row) THEN Zero
    ELSE Add(Mul(row[c], v[c]), RowTimesVector(row, v, c + 1))

\* the counts or the dimensions of the two arrays disagree
BatchShapesDisagree ==
    \/ Len(call.matrices) # Len(call.vectors)
    \/ \E i \in 1..Len(call.matrices) : \E r \in 1..Len(call.matrices[i]) :
           Len(call.matrices[i][r]) # Len(call.vectors[1])

\* every matrix of the batch is a square identity matrix
BatchAllIdentity ==
    \A i \in 1..Len(call.matrices) :
        /\ Len(call.matrices[i]) = Len(call.matrices[i][1])
        /\ \A r, c \in 1..Len(call.matrices[i]) :
               call.matrices[i][r][c] = IF r = c THEN One ELSE Zero

\* C21: batch_dot raises ValueError and returns nothing when the number of
\* matrices differs from the number of vectors or the column count differs
\* from the vectors' length; otherwise it returns N vectors of length n with
\* out[i] = matrices[i] . vectors[i], the vectors themselves for identity
\* matrices.
C21_BatchDotShapesAndProducts ==
    call.fn = "batch_dot" =>
        IF BatchShapesDisagree
        THEN call.raised = "ValueError" /\ call.out = << >>
        ELSE /\ call.raised = ""
             /\ Len(call.out) = Len(call.matrices)
             /\ \A i \in 1..Len(call.out) :
                    /\ Len(call.out[i]) = Len(call.matrices[i])
                    /\ \A r \in 1..Len(call.out[i]) :
                           call.out[i][r] = RowTimesVector(call.matrices[i][r],
                                                           call.vectors[i], 1)
             /\ BatchAllIdentity => call.out = call.vectors

\* two different matrices applied to two vectors
C21_Witness ==
    /\ call.fn = "batch_dot"
    /\ call.raised = ""
    /\ Len(call.matrices) = 2
    /\ call.matrices[1] # call.matrices[2]
    /\ call.out[1] # call.out[2]
    /\ call.out # call.vectors

\* a batch of identity matrices returned its vectors
C21_IdentityReached ==
    /\ call.fn = "batch_dot"
    /\ call.raised = ""
    /\ BatchAllIdentity
    /\ Len(call.matrices) = 2
    /\ call.out = call.vectors

\* a batch whose counts agree and whose dimensions do not raised
C21_MismatchReached ==
    /\ call.fn = "batch_dot"
    /\ Len(call.matrices) = Len(call.vectors)
    /\ call.raised = "ValueError"

---------------------------------------------------------------------------
(* SpecViews: __find_projections_on_different_views applied to drawn       *)
(* clouds.                                                                 *)

\* the longest cloud drawn
ViewMaxPoints == 2

\* cloud points on, and on both sides of, each separating plane
ViewPoints ==
    { <<Num(px), Num(py), Num(pz)>> : px \in {-1, 0, 1}, py \in {-1, 0, 1},
                                      pz \in {0, 1} }

InitViews ==
    /\ scans = NoScans
    /\ args = NoArgs
    /\ \E pts \in SeqsUpTo(ViewPoints, ViewMaxPoints) \ {<< >>} :
            call = [fn |-> "input", for |-> "find_projections_on_different_views",
                    points |-> pts]

\* points_sep_groups[n][v] as __find_projections_on_different_views returns it
points_sep_groups(points) ==
    Stored([n \in 1..Len(points) |->
        Stored([v \in 1..4 |-> points_sep_group(points[n], v)])])

\* the pair __find_projections_on_different_views returns
ViewsResult(points, projections, groups) ==
    [fn |-> "find_projections_on_different_views", points |-> points,
     projections |-> projections, points_sep_groups |-> groups]

FindProjectionsOnDifferentViews ==
    /\ call.fn = "input"
    /\ call.for = "find_projections_on_different_views"
    /\ call' = ViewsResult(call.points,
                           find_projections_on_different_views(call.points),
                           points_sep_groups(call.points))
    /\ UNCHANGED <<scans, args>>

NextViews == FindProjectionsOnDifferentViews

SpecViews == InitViews /\ [][NextViews]_vars

(* ---- claims about the multi-view projection (SpecViews) ---- *)

\* the views in which point n has a projection
ViewsOf(n) == {v \in 1..4 : n \in DOMAIN call.projections[v]}

\* the separating planes on whose strictly positive side point n lies
PositiveSidesOf(n) == {v \in 1..4 : call.points_sep_groups[n][v]}

\* pr lies on plane pl
OnPlane(pr, pl) == EqF(plane_eq(pr, pl), Zero)

\* the offset plane of view v that the claim assigns to point pt: D - 2 on
\* the strictly positive side of the separating plane, D + 2 otherwise
AssignedPlane(pt, v) ==
    IF Gt(plane_eq(pt, sep_planes[v]), Zero)
    THEN [sep_planes[v] EXCEPT ![4] = Sub(@, Num(2))]
    ELSE [sep_planes[v] EXCEPT ![4] = Add(@, Num(2))]

\* the other offset plane of view v
OtherPlane(pt, v) ==
    IF Gt(plane_eq(pt, sep_planes[v]), Zero)
    THEN [sep_planes[v] EXCEPT ![4] = Add(@, Num(2))]
    ELSE [sep_planes[v] EXCEPT ![4] = Sub(@, Num(2))]

\* C19: every point is projected in each of the 4 views, and in each view
\* onto exactly one of the two offset planes of that view's separating
\* plane: D - 2 when the point is on the strictly positive side, D + 2
\* otherwise (a point on the separating plane goes to D + 2).
C19_EveryViewOnePlaneBySide ==
    call.fn = "find_projections_on_different_views" =>
        \A n \in 1..Len(call.points) :
            /\ ViewsOf(n) = 1..4
            /\ \A v \in 1..4 :
                   /\ OnPlane(call.projections[v][n], AssignedPlane(call.points[n], v))
                   /\ ~OnPlane(call.projections[v][n], OtherPlane(call.points[n], v))

\* a cloud with a point on a separating plane and strictly off another
C19_Witness ==
    /\ call.fn = "find_projections_on_different_views"
    /\ \E n \in 1..Len(call.points) :
           /\ EqF(plane_eq(call.points[n], sep_planes[1]), Zero)
           /\ call.points_sep_groups[n][3]
           /\ OnPlane(call.projections[1][n],
                      [sep_planes[1] EXCEPT ![4] = Add(@, Num(2))])
           /\ OnPlane(call.projections[3][n],
                      [sep_planes[3] EXCEPT ![4] = Sub(@, Num(2))])

\* C19 as stated: the points are partitioned into 4 groups, each point in
\* exactly one group (one view, or one strictly positive side), and each
\* point is projected onto one offset plane chosen by its side.
C19_PartitionIntoFourGroups ==
    call.fn = "find_projections_on_different_views" =>
        \A n \in 1..Len(call.points) :
            /\ Cardinality(ViewsOf(n)) = 1 \/ Cardinality(PositiveSidesOf(n)) = 1
            /\ \A v \in ViewsOf(n) :
                   OnPlane(call.projections[v][n], AssignedPlane(call.points[n], v))

---------------------------------------------------------------------------
(* SpecPlane: the plane fitting and the projection of                      *)
(* local_plane_uniform_cost (from cdist to quasi_dist_points_projections)  *)
(* applied to drawn base points and clouds.                                *)

\* the longest cloud drawn
PlaneMaxPoints == 3

\* cloud points on the planes z = 0, x = y and z = x through the origin
PlanePoints ==
    { <<One, Zero, Zero>>, <<Zero, One, Zero>>, <<Zero, Num(2), Zero>>,
      <<One, One, Zero>>, <<One, One, One>>, <<Num(2), Num(2), One>> }

\* the base point arrays drawn
PlaneBasePoints ==
    { <<<<Zero, Zero, Zero>>>>, <<<<Zero, Zero, Zero>>, <<Num(2), Num(2), Zero>>>> }

InitPlane ==
    /\ scans = NoScans
    /\ args = NoArgs
    /\ \E bps \in PlaneBasePoints :
       \E pts \in SeqsUpTo(PlanePoints, PlaneMaxPoints) \ {<< >>} :
            call = [fn |-> "input", for |-> "local_planes",
                    base_points |-> bps, points |-> pts]

\* what local_plane_uniform_cost computes from the planes on, up to the
\* point-to-projection term
LocalPlanesResult(base_points, points, planes, projections) ==
    [fn |-> "local_planes", base_points |-> base_points, points |-> points,
     planes |-> planes, projections |-> projections,
     quasi_dist_points_projections |->
         quasi_dist_points_projections(points, projections)]

LocalPlanesOn(base_points, points, planes) ==
    LocalPlanesResult(base_points, points, planes,
                      local_projections(base_points, points, planes))

LocalPlanes ==
    /\ call.fn = "input"
    /\ call.for = "local_planes"
    /\ call' = LocalPlanesOn(call.base_points, call.points,
                             local_planes(call.base_points, call.points))
    /\ UNCHANGED <<scans, args>>

NextPlane == LocalPlanes

SpecPlane == InitPlane /\ [][NextPlane]_vars

(* ---- claims about the planes of local_plane_uniform_cost (SpecPlane) ---- *)

\* C12: the plane chosen for every base point has finite coefficients and
\* (A, B, C) is not the zero vector, also for a triple (base point, nearest,
\* second nearest) whose xy-projections are collinear.
C12_PlanesFiniteNonZero ==
    call.fn = "local_planes" =>
        \A m \in 1..Len(call.planes) :
            /\ \A k \in 1..4 : IsFinite(call.planes[m][k])
            /\ <<call.planes[m][1], call.planes[m][2], call.planes[m][3]>>
                   # <<Zero, Zero, Zero>>

\* base points and cloud points in one array
PlaneAllPoints == call.base_points \o call.points

\* every point of ps lies on one plane through ps[1]: no three differences
\* from ps[1] span the space
Coplanar(ps) ==
    \A i, j, k \in 1..Len(ps) :
        Det3(<<VecSub(ps[i], ps[1]), VecSub(ps[j], ps[1]),
               VecSub(ps[k], ps[1])>>) = Zero

\* the normal of the plane through ps[1], ps[i] and ps[j]
SpannedNormal(ps, i, j) ==
    basis_cross(VecSub(ps[i], ps[1]), VecSub(ps[j], ps[1]))

\* C18: when all base points and all cloud points lie on one common plane,
\* the point-to-projection term of local_plane_uniform_cost is 0 within the
\* 1e-8 tolerance, whatever the orientation of that plane.
C18_CoplanarTermIsZero ==
    (call.fn = "local_planes" /\ Coplanar(PlaneAllPoints)) =>
        float_equals(call.quasi_dist_points_projections, Zero, Eps8)

\* a common plane with a non-vertical normal and a term that is not 0
C18_TiltedPlaneTermNonZero ==
    /\ call.fn = "local_planes"
    /\ Coplanar(PlaneAllPoints)
    /\ \E i, j \in 1..Len(PlaneAllPoints) :
           ~EqF(SpannedNormal(PlaneAllPoints, i, j)[3], Zero)
    /\ IsFinite(call.quasi_dist_points_projections)
    /\ Gt(call.quasi_dist_points_projections, Zero)

\* a common vertical plane (normal with zero z) and a term that is NaN
C18_VerticalPlaneTermNaN ==
    /\ call.fn = "local_planes"
    /\ Coplanar(PlaneAllPoints)
    /\ \A i, j \in 1..Len(PlaneAllPoints) :
           EqF(SpannedNormal(PlaneAllPoints, i, j)[3], Zero)
    /\ IsNaN(call.quasi_dist_points_projections)

\* a common plane and a term that is 0
C18_CoplanarTermZero ==
    /\ call.fn = "local_planes"
    /\ Coplanar(PlaneAllPoints)
    /\ Len(call.points) > 1
    /\ EqF(call.quasi_dist_points_projections, Zero)

\* C23: for every base point the second nearest cloud point has another
\* index than the nearest one, for every cloud that passes the guard on
\* points_count, a cloud of one point included.
C23_SecondNearestIsAnotherPoint ==
    call.fn = "local_planes" =>
        \A m \in 1..Len(call.base_points) :
            second_nearest_points_ind(call.base_points[m], call.points)
                # nearest_points_ind(call.base_points[m], call.points)

\* the same for the clouds of two points and more
C23_AnotherPointFromTwoPointsOn ==
    (call.fn = "local_planes" /\ Len(call.points) >= 2) =>
        \A m \in 1..Len(call.base_points) :
            second_nearest_points_ind(call.base_points[m], call.points)
                # nearest_points_ind(call.base_points[m], call.points)

\* the nearest and the second nearest cloud point of base point m
PlaneNearest(m) ==
    call.points[nearest_points_ind(call.base_points[m], call.points)]

PlaneSecondNearest(m) ==
    call.points[second_nearest_points_ind(call.base_points[m], call.points)]

\* the determinant of the triple of base point m: the rows (x, y, 1) of the
\* base point, its nearest and its second nearest point
TripleDet(m) ==
    Det3(<<<<call.base_points[m][1], call.base_points[m][2], One>>,
           <<PlaneNearest(m)[1], PlaneNearest(m)[2], One>>,
           <<PlaneSecondNearest(m)[1], PlaneSecondNearest(m)[2], One>>>>)

\* the three points of the triple of base point m share coordinate k within
\* the equality tolerance
TripleShares(m, k) ==
    /\ Lt(Abs(Sub(call.base_points[m][k], PlaneNearest(m)[k])), <<1, 100000000>>)
    /\ Lt(Abs(Sub(PlaneNearest(m)[k], PlaneSecondNearest(m)[k])), <<1, 100000000>>)

\* the plane of base point m contains the three points of its triple
PlaneContainsTriple(m) ==
    /\ plane_eq(call.base_points[m], call.planes[m]) = Zero
    /\ plane_eq(PlaneNearest(m), call.planes[m]) = Zero
    /\ plane_eq(PlaneSecondNearest(m), call.planes[m]) = Zero

\* C25: when the determinant of the triple of a base point is not zero, its
\* plane is (A, B, -1, D) and contains the base point, the nearest and the
\* second nearest point; when the three share x the plane is x = base.x,
\* when they do not and share y it is y = base.y, and it contains the three
\* points as well.
C25_PlaneContainsItsTriple ==
    call.fn = "local_planes" =>
        \A m \in 1..Len(call.base_points) :
            /\ TripleDet(m) # Zero =>
                   call.planes[m][3] = Num(-1) /\ PlaneContainsTriple(m)
            /\ TripleShares(m, 1) =>
                   /\ call.planes[m]
                          = <<One, Zero, Zero, Neg(call.base_points[m][1])>>
                   /\ PlaneContainsTriple(m)
            /\ (~TripleShares(m, 1) /\ TripleShares(m, 2)) =>
                   /\ call.planes[m]
                          = <<Zero, One, Zero, Neg(call.base_points[m][2])>>
                   /\ PlaneContainsTriple(m)

\* one base point with a tilted plane through a triple of non-zero
\* determinant, another whose triple shares both x and y and has the plane
\* x = base.x
C25_Witness ==
    /\ call.fn = "local_planes"
    /\ \E m, k \in 1..Len(call.base_points) :
           /\ TripleDet(m) # Zero
           /\ call.planes[m][1] # Zero
           /\ TripleShares(k, 1) /\ TripleShares(k, 2)
           /\ call.planes[k][1] = One

\* a triple that shares y and not x, with the plane y = base.y
C25_YFallbackReached ==
    /\ call.fn = "local_planes"
    /\ \E m \in 1..Len(call.base_points) :
           /\ ~TripleShares(m, 1) /\ TripleShares(m, 2)
           /\ call.planes[m][2] = One

---------------------------------------------------------------------------
(* The calibration run: cost evaluations and reconstructions over one      *)
(* scans dict.  args is drawn once, as optimize.py builds it once; every   *)
(* step is one call of a cost function with a parameter vector x, or one   *)
(* call of build_points_cloud on the scans as they stand.                  *)

\* a scan: a 2x2 depth image, an angle of view of pi/2, a quarter turn of
\* the table per second
Scan(spd) ==
    [camera_angle_of_view |-> One, camera_angular_velocity |-> One,
     camera_initial_position |-> [x |-> Zero, y |-> Zero, z |-> Zero],
     camera_landscape_angle |-> Zero, camera_view_elevation |-> One,
     depth_height |-> 2, depth_width |-> 2, sensor_plane_depth |-> spd]

InitScans == [key \in {"a", "b"} |-> Scan(key = "b")]

\* a frame whose centre pixel (i = j = 1) holds depth d with confidence 5,
\* whose corner pixel (i = j = 0) holds depth e with confidence c, and
\* whose other two pixels hold depth 0 with confidence 0
Frame(key, seconds, d, e, c) ==
    [scan |-> key, time |-> Num(seconds * NsPerSecond),
     depths |-> <<e, Zero, Zero, d>>,
     depth_confidences |-> <<Num(c), Num(0), Num(0), Num(5)>>]

\* silhouettes of constant height h for the 4 views and 2 sides
Silhouettes(h) == Stored([v \in 1..4 |-> <<<<Zero, h>>, <<Zero, h>>>>])

BaseArgs ==
    [scans_keys |-> <<"a">>,
     frames |-> <<Frame("a", 0, Rat(1, 2), Zero, 0)>>,
     build_points_cloud_params |-> DefaultParams,
     base_points |-> <<<<Zero, Zero, Zero>>>>,
     dist_count |-> 2,
     ip |-> Silhouettes(Rat(1, 2)),
     ip_surface |-> <<Zero, Zero, Rat(1, 2)>>]

\* the args tuples of the runs
ArgsChoices ==
    { BaseArgs,
      [BaseArgs EXCEPT !.frames = <<Frame("a", 0, Rat(1, 4), Zero, 0),
                                    Frame("b", 1, Rat(1, 4), Zero, 0),
                                    Frame("a", 2, Rat(1, 2), Zero, 0)>>,
                       !.base_points = <<<<Zero, Zero, Zero>>, <<Zero, Zero, One>>>>,
                       !.dist_count = 3],
      [BaseArgs EXCEPT !.build_points_cloud_params =
                           [DefaultParams EXCEPT !.max_z = Num(-1)]],
      [BaseArgs EXCEPT !.base_points = << >>,
                       !.ip = Silhouettes(Num(-1)),
                       !.frames = <<Frame("a", 0, Rat(1, 4), Zero, 5)>>],
      [BaseArgs EXCEPT !.scans_keys = <<"a", "b">>,
                       !.frames = <<Frame("a", 0, Rat(1, 4), Zero, 0),
                                    Frame("b", 0, Rat(1, 2), Zero, 0)>>] }

\* parameter vectors for one scan: eye x, y, z, view elevation, landscape
\* angle (in quarter turns)
XOne ==
    { <<Zero, Zero, Zero, One, Zero>>,
      <<Zero, Zero, One, Zero, One>>,
      <<Num(3), Num(4), One, One, Zero>>,
      <<Zero, Zero, Zero, Zero, Zero>>,
      <<Zero, Rat(1, 4), Rat(1, 4), Rat(1, 4), Zero>> }

\* parameter vectors for two scans
XTwo ==
    { <<Zero, Zero, Zero, One, Zero>> \o <<Zero, Rat(1, 4), Rat(1, 4), Rat(1, 4), One>>,
      <<Zero, Zero, One, Zero, One>> \o <<Zero, Zero, Zero, Zero, Zero>>,
      <<Rat(1, 4), Zero, Zero, Zero, Num(2)>> \o <<Zero, Zero, Zero, One, Zero>> }

\* the vectors tried in the runs with several frames of one calibrated scan
XFew ==
    { <<Zero, Zero, Zero, One, Zero>>,
      <<Zero, Zero, Zero, Zero, Zero>>,
      <<Zero, Rat(1, 4), Rat(1, 4), Rat(1, 4), Zero>> }

\* the vectors x of the length the run's scans_keys asks for
XFor(cargs) ==
    IF Len(cargs.scans_keys) = 2 THEN XTwo
    ELSE IF Len(cargs.frames) > 1 THEN XFew
    ELSE XOne

\* the permutations np.random.shuffle can leave of n indices
Shuffles(n) == {s \in [1..n -> 1..n] : \A p, q \in 1..n : s[p] = s[q] => p = q}

\* what the installed Rotation can do with the scans as given: raise on a
\* NaN rotation vector or return NaNs, when some frame's scan yields one
RotationOutcomes(all_scans) ==
    IF \E k \in 1..Len(args.frames) : rotvec_is_nan(all_scans[args.frames[k].scan])
    THEN BOOLEAN ELSE {FALSE}

\* the record of a finished call
CallOf(fn, x, result) ==
    [fn |-> fn, x |-> x, raised |-> result.raised, ret |-> result.ret,
     built |-> result.built, points |-> result.points]

CostFunctions ==
    {"local_plane_uniform_cost", "multiple_projections_cost",
     "points_in_neighborhood_cost", "multiple_projections_interp_cost"}

Init ==
    /\ scans = InitScans
    /\ args \in ArgsChoices
    /\ call = [fn |-> "none"]

\* the scans dict after the writes of a cost function called with x
Written(x) == write_loop(scans, args.scans_keys, x, 0)

\* the number of points build_points_cloud hands a cost function called
\* with x
CloudSize(x, nan_raises) ==
    Len(build_points_cloud(Written(x), args.frames,
                           args.build_points_cloud_params, nan_raises).points)

\* the call returns or raises: the scans dict is as the call leaves it
Finish(fn, x, result) ==
    /\ scans' = result.scans
    /\ call' = CallOf(fn, x, result)
    /\ UNCHANGED args

LocalPlaneUniformCost ==
    \E x \in XFor(args) : \E nan_raises \in RotationOutcomes(Written(x)) :
        Finish("local_plane_uniform_cost", x,
               local_plane_uniform_cost(scans, args, x, nan_raises))

MultipleProjectionsCost ==
    \E x \in XFor(args) : \E nan_raises \in RotationOutcomes(Written(x)) :
        \E shuffled \in Shuffles(CloudSize(x, nan_raises)) :
            Finish("multiple_projections_cost", x,
                   multiple_projections_cost(scans, args, x, shuffled, nan_raises))

PointsInNeighborhoodCost ==
    \E x \in XFor(args) : \E nan_raises \in RotationOutcomes(Written(x)) :
        Finish("points_in_neighborhood_cost", x,
               points_in_neighborhood_cost(scans, args, x, nan_raises))

MultipleProjectionsInterpCost ==
    \E x \in XFor(args) : \E nan_raises \in RotationOutcomes(Written(x)) :
        \E shuffled \in Shuffles(CloudSize(x, nan_raises)) :
            Finish("multiple_projections_interp_cost", x,
                   multiple_projections_interp_cost(scans, args, x, shuffled,
                                                    nan_raises))

\* build_points_cloud returns or raises.  given is the scans dict the call
\* was handed; repeats says that the call before it was build_points_cloud
\* as well, on scans it left as they are now.
FinishBuild(cloud) ==
    /\ scans' = cloud.scans
    /\ call' = [fn |-> "build_points_cloud", given |-> scans,
                raised |-> cloud.raised, points |-> cloud.points,
                repeats |-> call.fn = "build_points_cloud"]
    /\ UNCHANGED args

\* build_points_cloud(scans, frames, params) on the scans as they stand
BuildPointsCloud ==
    \E nan_raises \in RotationOutcomes(scans) :
        FinishBuild(build_points_cloud(scans, args.frames,
                                       args.build_points_cloud_params, nan_raises))

Next ==
    \/ LocalPlaneUniformCost
    \/ MultipleProjectionsCost
    \/ PointsInNeighborhoodCost
    \/ MultipleProjectionsInterpCost
    \/ BuildPointsCloud

Spec == Init /\ [][Next]_vars

---------------------------------------------------------------------------
(* Claims about the calibration run                                        *)

\* the sentinel the cost function fn returns for an empty cloud
SentinelOf(fn) ==
    IF fn = "local_plane_uniform_cost" THEN Num(SentinelLocalPlane)
    ELSE Num(SentinelProjections)

\* the call that just finished is a cost function to which
\* build_points_cloud returned
CostCallBuilt == call.fn \in CostFunctions /\ call.built

\* C1: whenever build_points_cloud hands a cost function zero points, the
\* cost function returns its sentinel without raising: 1e+6 for
\* multiple_projections_cost, points_in_neighborhood_cost and
\* multiple_projections_interp_cost, 1e+8 for local_plane_uniform_cost,
\* which returns 1e+8 also when base_points is empty.
C1_ZeroPointsSentinel ==
    (/\ CostCallBuilt
     /\ \/ Len(call.points) = 0
        \/ call.fn = "local_plane_uniform_cost" /\ Len(args.base_points) = 0)
    => call.raised = "" /\ call.ret = SentinelOf(call.fn)

\* multiple_projections_cost returned 1e+6 for a cloud that the z filter of
\* the params emptied
C1_Witness ==
    /\ call.fn = "multiple_projections_cost"
    /\ call.built
    /\ Len(call.points) = 0
    /\ args.build_points_cloud_params.max_z = Num(-1)
    /\ call.raised = ""
    /\ call.ret = Num(SentinelProjections)

\* C2: whenever build_points_cloud hands a cost function at least one point,
\* the cost function returns a finite number and does not raise.
C2_FiniteWhenPoints ==
    (CostCallBuilt /\ Len(call.points) >= 1)
    => call.raised = "" /\ IsFinite(call.ret)

\* the five entries of x for Python index i are in the five calibrated
\* fields of the scan
CalibratedFieldsAre(scan, x, i) ==
    /\ scan.camera_initial_position.x = x[5 * i + 1]
    /\ scan.camera_initial_position.y = x[5 * i + 2]
    /\ scan.camera_initial_position.z = x[5 * i + 3]
    /\ scan.camera_view_elevation = x[5 * i + 4]
    /\ scan.camera_landscape_angle = x[5 * i + 5]

\* the fields of a scan that no parameter vector calibrates
UncalibratedFields(scan) ==
    <<scan.camera_angle_of_view, scan.camera_angular_velocity, scan.depth_height,
      scan.depth_width, scan.sensor_plane_depth>>

\* the keys of scans_keys
CalibratedKeys == {args.scans_keys[i] : i \in 1..Len(args.scans_keys)}

\* what a call of a cost function with x leaves: the scan of the i-th key
\* holds x[5i .. 5i+4] in its calibrated fields, its other fields, the other
\* scans and the args tuple (the frames in it) are as before the call
CostCallWrites ==
    /\ DOMAIN scans' = DOMAIN scans
    /\ \A i \in 1..Len(args.scans_keys) :
           /\ CalibratedFieldsAre(scans'[args.scans_keys[i]], call'.x, i - 1)
           /\ UncalibratedFields(scans'[args.scans_keys[i]])
                  = UncalibratedFields(scans[args.scans_keys[i]])
    /\ \A key \in DOMAIN scans \ CalibratedKeys : scans'[key] = scans[key]
    /\ args' = args

\* C3: every call cost(x, args), whether it returns a cost, returns the
\* sentinel or raises, leaves x[5i], x[5i+1], x[5i+2] in the initial
\* position, x[5i+3] in the view elevation and x[5i+4] in the landscape
\* angle of the scan of the i-th key of scans_keys, and changes no other
\* scan, no other scan field and no frame; so after each evaluation of a
\* sequence the calibrated fields hold the x of that evaluation.
C3_WritesExactlyCalibratedFields ==
    [][call'.fn \in CostFunctions => CostCallWrites]_vars

\* a cost function returned the sentinel and the scan "a" holds the x of the
\* call, which differs from the scan's initial fields in all five entries
C3_Witness ==
    /\ call.fn \in CostFunctions
    /\ call.raised = ""
    /\ call.ret = SentinelOf(call.fn)
    /\ call.x = <<Zero, Zero, One, Zero, One>>
    /\ CalibratedFieldsAre(scans["a"], call.x, 0)
    /\ ~CalibratedFieldsAre(InitScans["a"], call.x, 0)

\* C4: a call of build_points_cloud leaves every scan and the args tuple
\* (frames and params) unchanged, and a call that repeats a call on the same
\* scans, frames and params, with the same Rotation installed, returns the
\* same points.
C4_BuildIsPureAndRepeatable ==
    [][call'.fn = "build_points_cloud" =>
           /\ scans' = scans
           /\ args' = args
           /\ (call.fn = "build_points_cloud" /\ call.raised = call'.raised)
                  => call'.points = call.points]_vars

\* build_points_cloud returned a non-empty cloud for the scans a call of
\* build_points_cloud before it had been handed
C4_Witness ==
    /\ call.fn = "build_points_cloud"
    /\ call.repeats
    /\ call.given = scans
    /\ call.raised = ""
    /\ Len(call.points) >= 1
---------------------------------------------------------------------------
(* SpecInterp: multiple_projections_interp_cost applied to drawn args,     *)
(* parameter vectors and shuffles, over the scans dict of the calibration  *)
(* run.                                                                    *)

\* the surface interpolators drawn: the coefficients of z = a x + b y + c
InterpSurfaces ==
    { <<Zero, Zero, Rat(1, 2)>>, <<Zero, Zero, Zero>>, <<One, Zero, Zero>>,
      <<Zero, One, Rat(1, 4)>> }

InitInterp ==
    /\ scans = InitScans
    /\ \E a \in ArgsChoices : \E s \in InterpSurfaces :
           args = [a EXCEPT !.ip_surface = s]
    /\ \E x \in XFor(args) : \E nan_raises \in RotationOutcomes(Written(x)) :
           \E shuffled \in Shuffles(CloudSize(x, nan_raises)) :
               call = [fn |-> "input", for |-> "multiple_projections_interp_cost",
                       x |-> x, shuffled |-> shuffled, nan_raises |-> nan_raises]

\* the record of a finished call of multiple_projections_interp_cost: what
\* it was given and what it returned or raised
InterpCallOf(given, x, shuffled, nan_raises, result) ==
    [fn |-> "multiple_projections_interp_cost", given |-> given, x |-> x,
     shuffled |-> shuffled, nan_raises |-> nan_raises,
     raised |-> result.raised, ret |-> result.ret, points |-> result.points]

InterpFinish(x, shuffled, nan_raises, result) ==
    /\ scans' = result.scans
    /\ call' = InterpCallOf(scans, x, shuffled, nan_raises, result)
    /\ UNCHANGED args

InterpCost ==
    /\ call.fn = "input"
    /\ call.for = "multiple_projections_interp_cost"
    /\ InterpFinish(call.x, call.shuffled, call.nan_raises,
                    multiple_projections_interp_cost(scans, args, call.x,
                                                     call.shuffled, call.nan_raises))

NextInterp == InterpCost

SpecInterp == InitInterp /\ [][NextInterp]_vars

(* ---- claims about multiple_projections_interp_cost (SpecInterp) ---- *)

RECURSIVE SurfaceResidualSquares(_, _, _)
\* the sum over points[k..] of (ip(x, y) - z) ^ 2
SurfaceResidualSquares(ip, points, k) ==
    IF k > Len(points) THEN Zero
    ELSE Add(Mul(Sub(Add3(Mul(ip[1], points[k][1]), Mul(ip[2], points[k][2]), ip[3]),
                     points[k][3]),
                 Sub(Add3(Mul(ip[1], points[k][1]), Mul(ip[2], points[k][2]), ip[3]),
                     points[k][3])),
             SurfaceResidualSquares(ip, points, k + 1))

\* the finished call returned 1.0 times what multiple_projections_cost
\* returned as mpc plus 1 / 2000 times the residual sum over mpc's points
InterpIsSumOf(mpc) ==
    /\ call.raised = mpc.raised
    /\ call.raised = "" =>
           /\ call.points = mpc.points
           /\ call.ret = Add(Mul(One, mpc.ret),
                             Mul(Rat(1, 2000),
                                 SurfaceResidualSquares(args.ip_surface, mpc.points, 1)))

\* C20: multiple_projections_interp_cost(x, args) returns 1.0 times the value
\* of multiple_projections_cost for the same x, scans, frames, params,
\* dist_count and shuffle, plus 1 / 2000 times the sum of (ip(x, y) - z) ^ 2
\* over the points reconstructed under x.
C20_InterpCostIsWeightedSum ==
    call.fn = "multiple_projections_interp_cost" =>
        InterpIsSumOf(multiple_projections_cost(call.given, args, call.x,
                                                call.shuffled, call.nan_raises))

\* a call on a cloud of several points with a non-zero projection cost and
\* a non-zero residual sum
C20_Witness ==
    /\ call.fn = "multiple_projections_interp_cost"
    /\ call.raised = ""
    /\ Len(call.points) >= 2
    /\ Gt(SurfaceResidualSquares(args.ip_surface, call.points, 1), Zero)
    /\ Gt(multiple_projections_cost(call.given, args, call.x, call.shuffled,
                                    call.nan_raises).ret, Zero)
    /\ IsFinite(call.ret)
---------------------------------------------------------------------------
(* SpecRace: three evaluations of a cost function over one shared Scan     *)
(* object, stepping one field write or one field read at a time.  Each     *)
(* evaluation writes the five calibrated fields of scan "a" from its own   *)
(* x (objectives.py 257-261), then build_points_cloud reads them back      *)
(* (points_cloud.py 91-101, 140).                                          *)

\* the calibrated fields in the order the cost functions write them and
\* __get_points reads them
CalibratedFieldCount == 5

\* the writes with that of the landscape angle left out
write_field_but_landscape(scan, x, i, f) ==
    IF f = 1 THEN [scan EXCEPT !.camera_initial_position.x = x[5 * i + 1]]
    ELSE IF f = 2 THEN [scan EXCEPT !.camera_initial_position.y = x[5 * i + 2]]
    ELSE IF f = 3 THEN [scan EXCEPT !.camera_initial_position.z = x[5 * i + 3]]
    ELSE IF f = 4 THEN [scan EXCEPT !.camera_view_elevation = x[5 * i + 4]]
    ELSE scan

\* scans[key][field f] = x[5 * i + f - 1], for f = 1 (x) .. 5 (landscape angle)
write_field(scan, x, i, f) ==
    IF f = 1 THEN [scan EXCEPT !.camera_initial_position.x = x[5 * i + 1]]
    ELSE IF f = 2 THEN [scan EXCEPT !.camera_initial_position.y = x[5 * i + 2]]
    ELSE IF f = 3 THEN [scan EXCEPT !.camera_initial_position.z = x[5 * i + 3]]
    ELSE IF f = 4 THEN [scan EXCEPT !.camera_view_elevation = x[5 * i + 4]]
    ELSE [scan EXCEPT !.camera_landscape_angle = x[5 * i + 5]]

\* the read of field f by __get_eye, __get_elev and __get_landscape_rot
read_field(scan, f) ==
    IF f = 1 THEN scan.camera_initial_position.x
    ELSE IF f = 2 THEN scan.camera_initial_position.y
    ELSE IF f = 3 THEN scan.camera_initial_position.z
    ELSE IF f = 4 THEN scan.camera_view_elevation
    ELSE scan.camera_landscape_angle

\* the evaluations and the parameter vector of each
RaceEvals == 1..3

RaceX ==
    << <<Zero, Zero, Zero, One, Zero>>,
       <<Zero, Zero, One, Zero, One>>,
       <<Num(3), Num(4), One, One, Zero>> >>

\* a field not read yet
NotRead == <<2, 0>>

InitRace ==
    /\ scans = InitScans
    /\ args = BaseArgs
    /\ call = [fn |-> "evaluations",
               pc |-> [e \in RaceEvals |-> 0],
               read |-> [e \in RaceEvals |-> [f \in 1..CalibratedFieldCount |-> NotRead]],
               alone |-> [e \in RaceEvals |-> TRUE]]

\* evaluation e is between its first write and its last read
RaceRunning(pcs, e) == 0 < pcs[e] /\ pcs[e] < 2 * CalibratedFieldCount

\* the evaluations that are no longer alone once e takes a step
RaceOverlapping(pcs, e) ==
    IF \E o \in RaceEvals \ {e} : RaceRunning(pcs, o)
    THEN {e} \cup {o \in RaceEvals \ {e} : RaceRunning(pcs, o)}
    ELSE {}

\* evaluation e has taken one more step, a write or a read
RaceStepped(e, met, reads) ==
    call' = [call EXCEPT !.pc[e] = @ + 1,
                         !.read[e] = reads,
                         !.alone = [o \in RaceEvals |-> @[o] /\ o \notin met]]

\* one of the five field writes of evaluation e
RaceWrite(e) ==
    /\ call.fn = "evaluations"
    /\ call.pc[e] < CalibratedFieldCount
    /\ scans' = [scans EXCEPT !["a"] = write_field(@, RaceX[e], 0, call.pc[e] + 1)]
    /\ RaceStepped(e, RaceOverlapping(call.pc, e), call.read[e])
    /\ UNCHANGED args

\* one of the five field reads of the reconstruction of evaluation e
RaceRead(e) ==
    /\ call.fn = "evaluations"
    /\ call.pc[e] >= CalibratedFieldCount
    /\ call.pc[e] < 2 * CalibratedFieldCount
    /\ RaceStepped(e, RaceOverlapping(call.pc, e),
                   [call.read[e] EXCEPT ![call.pc[e] - CalibratedFieldCount + 1] =
                        read_field(scans["a"], call.pc[e] - CalibratedFieldCount + 1)])
    /\ UNCHANGED <<scans, args>>

NextRace ==
    \/ \E e \in RaceEvals : RaceWrite(e)
    \/ \E e \in RaceEvals : RaceRead(e)

SpecRace == InitRace /\ [][NextRace]_vars

(* ---- claims about evaluations sharing a Scan (SpecRace) ---- *)

\* evaluation e has read all five fields
RaceDone(e) == call.pc[e] = 2 * CalibratedFieldCount

\* the five values evaluation e reconstructs from
RaceReadOf(e) == [f \in 1..CalibratedFieldCount |-> call.read[e][f]]

\* C22: an evaluation during which no other evaluation wrote or read (the
\* evaluations are serialized around it) reconstructs from exactly the five
\* values of its own x; evaluations that interleave can reconstruct from
\* another evaluation's values or from a mix (C22_Witness).
C22_SerializedReadsOwnX ==
    call.fn = "evaluations" =>
        \A e \in RaceEvals :
            (RaceDone(e) /\ call.alone[e]) => RaceReadOf(e) = RaceX[e]

\* one evaluation ran alone and read its own x, and another, interleaved
\* with a third, read a field that is not of its own x
C22_Witness ==
    /\ call.fn = "evaluations"
    /\ \E e, o \in RaceEvals :
           /\ RaceDone(e) /\ call.alone[e] /\ RaceReadOf(e) = RaceX[e]
           /\ RaceDone(o) /\ ~call.alone[o] /\ RaceReadOf(o) # RaceX[o]

\* an evaluation read all five values of another evaluation's x
C22_ForeignReached ==
    /\ call.fn = "evaluations"
    /\ \E e, o \in RaceEvals :
           e # o /\ RaceDone(e) /\ RaceReadOf(e) = RaceX[o] /\ RaceX[o] # RaceX[e]

\* an evaluation read a mix: values that are the x of no evaluation
C22_MixReached ==
    /\ call.fn = "evaluations"
    /\ \E e \in RaceEvals :
           RaceDone(e) /\ \A o \in RaceEvals : RaceReadOf(e) # RaceX[o]
---------------------------------------------------------------------------
(* Claims about the history of the calibration run (Spec)                  *)

\* the cost functions without a random subsample
DeterministicCostFunctions ==
    {"local_plane_uniform_cost", "points_in_neighborhood_cost"}

\* what cost function fn raises or returns for x on the scans dict as
\* loaded, before any evaluation
FreshOutcome(fn, x, nan_raises) ==
    IF fn = "local_plane_uniform_cost"
    THEN LET r == local_plane_uniform_cost(InitScans, args, x, nan_raises)
         IN  <<r.raised, r.ret>>
    ELSE LET r == points_in_neighborhood_cost(InitScans, args, x, nan_raises)
         IN  <<r.raised, r.ret>>

\* C26: what local_plane_uniform_cost and points_in_neighborhood_cost return
\* for x after any sequence of evaluations is what they return for x on the
\* scans dict as loaded: the value depends on x and args only.
C26_ValueIndependentOfHistory ==
    call.fn \in DeterministicCostFunctions =>
        \E nan_raises \in RotationOutcomes(write_loop(InitScans, args.scans_keys,
                                                      call.x, 0)) :
            <<call.raised, call.ret>> = FreshOutcome(call.fn, call.x, nan_raises)

\* a deterministic cost function returned a finite value for x on scans
\* that an earlier evaluation with another x had written
C26_Witness ==
    /\ call.fn \in DeterministicCostFunctions
    /\ call.raised = ""
    /\ IsFinite(call.ret)
    /\ call.ret # SentinelOf(call.fn)
    /\ scans # InitScans
    /\ scans # write_loop(InitScans, args.scans_keys,
                          <<Zero, Zero, Zero, One, Zero>>, 0)
---------------------------------------------------------------------------
(* genetic_algorithm.py: minimize_genetic.  An individual is a record of   *)
(* its genes, its fitness value and whether the fitness is valid; a        *)
(* deleted fitness keeps no value.  The random draws (the initial          *)
(* population, the crossover and its point, the Gaussian noise, the        *)
(* tournaments) are choices from small sets.  HallOfFame, Fitness,         *)
(* cxOnePoint, mutGaussian and selTournament are those of deap.            *)

\* ind_size of the call of optimize.py
IndSize == 5

\* the cost functions fun drawn: the sum of the genes, and the same with
\* NaN for a negative landscape angle
fun_value(fun, genes) ==
    IF fun = "partial" /\ Lt(genes[5], Zero) THEN NaN ELSE SumSeq(genes)

\* ind.fitness.values = toolbox.evaluate(ind),
evaluate(fun, ind) ==
    [genes |-> ind.genes, fit |-> fun_value(fun, ind.genes), valid |-> TRUE]

\* del ind.fitness.values
del_fitness(ind) == [genes |-> ind.genes, fit |-> NaN, valid |-> FALSE]

\* Fitness.__gt__ with weights (-1.0,): not (wvalues <= other.wvalues)
fitness_gt(ind, other) == ~Le(Neg(ind.fit), Neg(other.fit))

\* HallOfFame.similar: operator.eq on the genes
similar(ind, hofer) == ind.genes = hofer.genes

RECURSIVE hof_update(_, _, _)
\* HallOfFame(1).update(individuals) from individual k on: an empty hall
\* takes individuals[0]; an individual that is greater than the entry and
\* not similar to it replaces the entry
hof_update(hof, individuals, k) ==
    IF k > Len(individuals) THEN hof
    ELSE IF Len(hof) = 0
    THEN hof_update(<<individuals[1]>>, individuals, k + 1)
    ELSE IF fitness_gt(individuals[k], hof[1]) /\ ~similar(individuals[k], hof[1])
    THEN hof_update(<<individuals[k]>>, individuals, k + 1)
    ELSE hof_update(hof, individuals, k + 1)

\* tools.cxOnePoint: the genes from cxpoint on are exchanged
cxOnePoint(ind1, ind2, cxpoint) ==
    <<[ind1 EXCEPT !.genes = SubSeq(ind1.genes, 1, cxpoint)
                                 \o SubSeq(ind2.genes, cxpoint + 1, Len(ind2.genes))],
      [ind2 EXCEPT !.genes = SubSeq(ind2.genes, 1, cxpoint)
                                 \o SubSeq(ind1.genes, cxpoint + 1, Len(ind1.genes))]>>

\* the crossover loop over the pair (offspring[0], offspring[1]): cxpoint = 0
\* stands for np.random.rand() >= crossover_prob
crossover(offspring, cxpoint) ==
    IF cxpoint = 0 \/ Len(offspring) < 2 THEN offspring
    ELSE <<del_fitness(cxOnePoint(offspring[1], offspring[2], cxpoint)[1]),
           del_fitness(cxOnePoint(offspring[1], offspring[2], cxpoint)[2])>>
         \o SubSeq(offspring, 3, Len(offspring))

\* tools.mutGaussian with the noise drawn, then del mutant.fitness.values
mutate(ind, noise) ==
    del_fitness([ind EXCEPT !.genes =
                     Stored([j \in 1..Len(ind.genes) |-> Add(ind.genes[j], noise[j])])])

\* the mutation loop
mutation(offspring, noises) ==
    Stored([i \in 1..Len(offspring) |-> mutate(offspring[i], noises[i])])

\* the genes that are neither a position nor an elevation are left as they
\* are
clamp_none(ind) == ind

\* offspring[i][j] = 0.0 where offspring[i][j] < 0 and j % 5 != 4
clamp(ind) ==
    [ind EXCEPT !.genes =
         Stored([j \in 1..Len(ind.genes) |->
             IF Lt(ind.genes[j], Zero) /\ (j - 1) % 5 # 4 THEN Zero ELSE ind.genes[j]])]

clamping(offspring) == Stored([i \in 1..Len(offspring) |-> clamp(offspring[i])])

\* the individuals whose fitness is not valid, in order
invalid_ind(offspring) == SelectSeq(offspring, LAMBDA ind : ~ind.valid)

\* the evaluation of the invalid individuals
evaluation(fun, offspring) ==
    Stored([i \in 1..Len(offspring) |->
        IF offspring[i].valid THEN offspring[i] ELSE evaluate(fun, offspring[i])])

\* the largest nb_gen drawn
GaMaxGen == 2

\* a vector of genes from whole numbers
Genes(s) == Stored([j \in 1..Len(s) |-> Num(s[j])])

\* the initial populations drawn: every gene is np.random.rand() * np.pi
GaPopulations ==
    { <<Genes(<<1, 1, 1, 1, 1>>), Genes(<<2, 0, 0, 0, 1>>)>>,
      <<Genes(<<0, 0, 0, 0, 0>>), Genes(<<3, 1, 0, 0, 0>>)>> }

\* the starting points x0 drawn
GaX0 == { Genes(<<0, 0, 0, 0, 0>>), Genes(<<3, 3, 3, 3, 3>>),
          Genes(<<1, 0, 0, 0, -1>>) }

\* the Gaussian noise drawn for one individual
GaNoises == { Genes(<<0, 0, 0, 0, 0>>), Genes(<<-2, 0, 1, 0, -2>>) }

\* the crossover points drawn: random.randint(1, size - 1), 0 for none
GaCxPoints == {0, 2, 4}

InitGenetic ==
    /\ scans = NoScans
    /\ args = NoArgs
    /\ \E fun \in {"sum", "partial"}, x0 \in GaX0,
          population \in GaPopulations, nb_gen \in 0..GaMaxGen :
           call = [fn |-> "input", for |-> "minimize_genetic", fun |-> fun,
                   x0 |-> x0, population |-> population, nb_gen |-> nb_gen]

\* a new individual with the genes given, its fitness not yet valid
individual(genes) == [genes |-> genes, fit |-> NaN, valid |-> FALSE]

\* lines 43-56: the initial population is evaluated, and the hall of fame
\* is updated with it and with the individual built from x0
GeneticStart ==
    /\ call.fn = "input"
    /\ call.for = "minimize_genetic"
    /\ LET population == evaluation(call.fun,
               Stored([i \in 1..Len(call.population) |->
                           individual(call.population[i])]))
           init_best_ind == evaluate(call.fun, individual(call.x0))
       IN  call' = [fn |-> "minimize_genetic", pc |-> "loop",
                    fun |-> call.fun, nb_gen |-> call.nb_gen, gen |-> 0,
                    initial |-> population \o <<init_best_ind>>,
                    population |-> population,
                    offspring |-> << >>, mutated |-> << >>, handed |-> << >>,
                    before |-> << >>, result |-> << >>,
                    hof |-> hof_update(<< >>, population \o <<init_best_ind>>, 1)]
    /\ UNCHANGED <<scans, args>>

\* lines 61-85: the offspring are clones of the population, crossed over,
\* mutated, clamped and evaluated
GeneticVariation ==
    /\ call.fn = "minimize_genetic"
    /\ call.pc = "loop"
    /\ call.gen < call.nb_gen
    /\ \E cxpoint \in GaCxPoints,
          noises \in [1..Len(call.population) -> GaNoises] :
           LET mutated == mutation(crossover(call.population, cxpoint), noises)
               clamped == clamping(mutated)
           IN  call' = [call EXCEPT
                   !.pc = "select",
                   !.mutated = mutated,
                   !.handed = invalid_ind(clamped),
                   !.offspring = evaluation(call.fun, clamped)]
    /\ UNCHANGED <<scans, args>>

\* lines 87-95: the tournaments fill the population from the population and
\* the offspring, then the hall of fame is updated with the population and
\* its own entry
GeneticSelect ==
    /\ call.fn = "minimize_genetic"
    /\ call.pc = "select"
    /\ LET pool == call.population \o call.offspring
       IN  \E winners \in [1..Len(call.population) -> 1..Len(pool)] :
               LET population == Stored([i \in 1..Len(call.population) |->
                                             pool[winners[i]]])
               IN  call' = [call EXCEPT
                       !.pc = "loop",
                       !.gen = call.gen + 1,
                       !.population = population,
                       !.before = call.hof,
                       !.hof = hof_update(call.hof,
                                          population \o <<call.hof[1]>>, 1)]
    /\ UNCHANGED <<scans, args>>

\* line 101: the hall-of-fame individual and its recorded cost
GeneticReturn ==
    /\ call.fn = "minimize_genetic"
    /\ call.pc = "loop"
    /\ call.gen = call.nb_gen
    /\ call' = [call EXCEPT !.pc = "returned",
                             !.result = <<call.hof[1].genes, call.hof[1].fit>>]
    /\ UNCHANGED <<scans, args>>

NextGenetic ==
    GeneticStart \/ GeneticVariation \/ GeneticSelect \/ GeneticReturn

SpecGenetic == InitGenetic /\ [][NextGenetic]_vars

\* C30: every offspring is handed to the cost function in every generation,
\* with every negative gene at a position j, j mod 5 # 4, set to 0 after the
\* mutation, and every gene at a position j, j mod 5 = 4, as mutated.
C30_OffspringClampedAndEvaluated ==
    (call.fn = "minimize_genetic" /\ call.pc = "select") =>
        /\ Len(call.handed) = Len(call.population)
        /\ Len(call.offspring) = Len(call.population)
        /\ \A i \in 1..Len(call.handed) :
              /\ call.offspring[i].valid
              /\ call.offspring[i].genes = call.handed[i].genes
              /\ call.offspring[i].fit = fun_value(call.fun, call.handed[i].genes)
              /\ \A j \in 1..IndSize :
                    IF (j - 1) % 5 # 4
                    THEN /\ Ge(call.handed[i].genes[j], Zero)
                         /\ call.handed[i].genes[j] =
                                IF Lt(call.mutated[i].genes[j], Zero)
                                THEN Zero ELSE call.mutated[i].genes[j]
                    ELSE call.handed[i].genes[j] = call.mutated[i].genes[j]

\* an offspring was mutated to a negative position gene and to a negative
\* landscape angle, and evaluated
C30_Witness ==
    /\ call.fn = "minimize_genetic"
    /\ call.pc = "select"
    /\ \E i \in 1..Len(call.handed) :
          /\ Lt(call.mutated[i].genes[1], Zero)
          /\ call.handed[i].genes[1] = Zero
          /\ Lt(call.handed[i].genes[5], Zero)

\* the hall-of-fame entry is one of the individuals of the population
HofInPopulation ==
    \E i \in 1..Len(call.population) :
        /\ call.population[i].genes = call.hof[1].genes
        /\ call.population[i].fit = call.hof[1].fit

\* C28: after the selection and the elitism step of every generation, the
\* hall-of-fame entry is a member of the population carried into the next
\* generation.
C28_HofEntryInPopulation ==
    (call.fn = "minimize_genetic" /\ call.pc \in {"loop", "returned"}
        /\ call.gen > 0) => HofInPopulation

\* the same for the hall of fame alone: after every generation it holds one
\* entry, which is no worse than any individual of the population when the
\* costs are numbers
C28_HofEntryNoWorseThanPopulation ==
    (call.fn = "minimize_genetic" /\ call.pc \in {"loop", "returned"}
        /\ call.gen > 0 /\ call.fun = "sum") =>
        /\ Len(call.hof) = 1
        /\ \A i \in 1..Len(call.population) :
              Le(call.hof[1].fit, call.population[i].fit)

\* the cost of the hall-of-fame entry did not increase in the generation
\* that has just ended
HofCostNotIncreased ==
    (call.pc = "loop" /\ call.gen > 0) =>
        Le(call.hof[1].fit, call.before[1].fit)

\* the call has returned after nb_gen generations, with the hall-of-fame
\* individual and its recorded cost, which is at most fun(x0) and at most
\* the cost of every individual of the initial population
ReturnedBest ==
    call.pc = "returned" =>
        /\ call.gen = call.nb_gen
        /\ call.result = <<call.hof[1].genes, call.hof[1].fit>>
        /\ call.result[2] = fun_value(call.fun, call.result[1])
        /\ \A i \in 1..Len(call.initial) :
              Le(call.result[2], call.initial[i].fit)

\* C29: the cost of the hall-of-fame entry never increases from one
\* generation to the next, the returned cost is at most fun(x0) and at most
\* the cost of every individual of the initial population, and the loop
\* ends after exactly nb_gen generations with the hall-of-fame individual
\* and its recorded cost.
C29_BestCostNeverIncreases ==
    call.fn = "minimize_genetic" => (HofCostNotIncreased /\ ReturnedBest)

\* the same when every cost is a number
C29_BestCostNeverIncreasesForNumbers ==
    (call.fn = "minimize_genetic" /\ call.fun = "sum") =>
        (HofCostNotIncreased /\ ReturnedBest)

\* a call has returned a cost that is not a number although an individual
\* of the initial population has a cost that is one
C29_NaNReturned ==
    /\ call.fn = "minimize_genetic"
    /\ call.pc = "returned"
    /\ call.nb_gen = GaMaxGen
    /\ IsNaN(call.result[2])
    /\ \E i \in 1..Len(call.initial) : IsFinite(call.initial[i].fit)

\* a call has returned after GaMaxGen generations a cost that is a number
\* and lower than every initial cost
C29_ImprovedReturned ==
    /\ call.fn = "minimize_genetic"
    /\ call.pc = "returned"
    /\ call.nb_gen = GaMaxGen
    /\ \A i \in 1..Len(call.initial) : Lt(call.result[2], call.initial[i].fit)

============================================================================
